---------------------------- MODULE Spec2Model ----------------------------
(***************************************************************************)
(* A model of src/RAMN.py (Roblox account manager): the at-rest secret     *)
(* cipher (_get_fernet, _is_enc, _enc, _dec), the account/group store kept *)
(* in SQLite, the QTreeWidget that presents it, and the last-played table. *)
(*                                                                         *)
(* Text values (Python str / bytes, SQLite TEXT) are sequences of symbols. *)
(* Python's None and SQLite's NULL are the one-symbol sentinel None, which *)
(* is outside every alphabet used for text.                                *)
(***************************************************************************)
EXTENDS Integers, Sequences, FiniteSets, TLC

VARIABLES
    \* ---- process and key files (module globals, lines 39-44)
    FERNET,        \* _FERNET: "None" or the key the cached Fernet object holds
    keyFile,       \* contents of _KEY_FILE, or NoFile
    keyFileOld,    \* contents of _KEY_FILE_OLD, or NoFile
    keyRuns,       \* times this process has gone through the key files
    keyLog,        \* what _get_fernet() has reported so far
    envDpapi,      \* CryptProtectData / CryptUnprotectData are usable
    envMkdir,      \* os.makedirs(_KEY_DIR_NEW) succeeds
    envWrite,      \* open(_KEY_FILE, "wb") succeeds
    envRemove,     \* os.remove(_KEY_FILE_OLD) succeeds
    \* ---- a value handed through _enc / _dec
    cin,           \* the value the run started from
    cval,          \* the value after the calls made so far
    cops,          \* the calls made so far, in order
    carg,          \* the argument of the last _enc / _dec call
    cexc,          \* whether the last call raised to its caller
    \* ---- accounts.db (lines 1404-1437, 1444-1452)
    accounts,      \* table accounts: username -> [alias, group_id, roblosecurity]
    groups,        \* table groups: id -> name
    groupSeq,      \* sqlite_sequence of groups (AUTOINCREMENT)
    \* ---- self.account_list, the QTreeWidget (lines 1067-1077)
    item,          \* item -> [kind, data, base, alias]: Qt.UserRole, +1, +5, +2
    kids,          \* item -> its children in order; ROOT -> the top-level items
    steps,         \* handlers of the main window run so far
    last_played,   \* table last_played: <<username, place_id>> -> row
    clock,         \* strftime('%s','now')
    lastOp,        \* the handler that ran last, with its inputs and outcome
    \* ---- one call of _get_auth_ticket (lines 2420-2436)
    tkPc,          \* where the call stands: "idle", "post1" or "post2"
    tkReqs,        \* the requests the call has sent, in order
    tkResp,        \* the header values its responses carried, in order
    tkOut,         \* the ticket it returned, None when it returned none
    tkErr,         \* the error it raised, "none" when it raised none
    tkCalls,       \* calls started so far
    \* ---- the file accounts.db across runs of the program
    schema,        \* [cookie, group: the columns accounts has; groups: its shape]
    opened,        \* the constructor has finished (lines 918-921)
    opens,         \* times the program was started
    rewrites,      \* username -> times migrate_table() rewrote its cookie
    \* ---- the profiles directory and the dialogs
    profiles,      \* names of the directories under PROFILE_DIR (lines 36, 910)
    shown,         \* message boxes the last add_account or do_launch showed
    selected,      \* usernames the last do_launch found selected, in list order
    launches,      \* what that do_launch did for each account it came to
    \* ---- the multi-instance feature (lines 2488-2517)
    multi_instance_enabled,  \* self.multi_instance_enabled
    patcher_started,         \* self._patcher_started: the thread of _mutex_patcher_loop runs
    cleared,                 \* times that loop has opened and closed the mutex
    saved_multi_instance,    \* settings row 'multi_instance': "none", "0" or "1"
    \* ---- one call of _fetch_game_info (lines 2127-2231)
    lookups,       \* <<what the four requests of the call are answered with>>
    game_info,     \* <<the (name, icon_url) the call returned>>, <<>> before it
    \* ---- the threads of _bg_fix_names (lines 2281-2299)
    jobs           \* the refreshes under way: snapshot, stage and updates

cipherVars == <<FERNET, keyFile, keyFileOld, keyRuns, keyLog, envDpapi, envMkdir, envWrite,
                envRemove,
                cin, cval, cops, carg, cexc>>

storeVars ==
    <<accounts, groups, groupSeq, item, kids, steps, lastOp, last_played, clock>>

ticketVars == <<tkPc, tkReqs, tkResp, tkOut, tkErr, tkCalls>>

\* what the cipher calls and the handlers of the main window leave alone
fileVars == <<schema, opened, opens, rewrites>>

uiVars == <<profiles, shown, selected, launches>>

mutexVars == <<multi_instance_enabled, patcher_started, cleared, saved_multi_instance>>

infoVars == <<lookups, game_info>>

restVars == <<ticketVars, fileVars, uiVars, mutexVars, infoVars, jobs>>

vars == <<cipherVars, storeVars, restVars>>

-----------------------------------------------------------------------------
(* Bounds *)

\* longest text drawn as an input of _enc / _dec
MaxLen == 2
\* most calls made on one value
MaxOps == 3
\* most group rows ever inserted
MaxGroupSeq == 2
\* most items the tree holds at once
MaxItems == 5
\* most handlers of the main window run in one run
MaxSteps == 3
\* most calls of _get_auth_ticket in one run
MaxCalls == 2
\* most starts of the program on one accounts.db
MaxOpens == 2
\* most rows of a groups table made before it had an id column
MaxLegacy == 2
\* most passes of the loop of _mutex_patcher_loop in one run
MaxCleared == 3
\* most launches (Join or Launch Selected) followed one after the other
MaxDispatch == 2
\* most Joins and logins followed one after the other
MaxReAdd == 2
\* most threads _refresh_last_played starts in one run
MaxJobs == 2
\* most Joins made while names are fixed in the background
MaxRejoin == 1

-----------------------------------------------------------------------------
(* Text *)

None == <<"None">>

\* The five characters every Fernet token starts with (line 144).
Marker == "gAAAA"

Keys == {"k1", "k2"}
Nonces == {"n1", "n2"}

\* "sur" is a lone surrogate: a character str.encode("utf-8") rejects.
\* "mac" stands for the token's trailing HMAC, "x" for any other character.
Sym == {Marker, "mac", "x", "sur"} \cup Keys \cup Nonces

StrUpTo(n) == UNION {[1..m -> Sym] : m \in 0..n}

Truthy(v) == v # None /\ v # <<>>

Utf8OK(s) == \A i \in 1..Len(s) : s[i] # "sur"

-----------------------------------------------------------------------------
(* cryptography.fernet.Fernet: a token names its key and nonce, carries    *)
(* the payload and ends with the HMAC; decrypt accepts a token only under  *)
(* the key that made it and with the HMAC in place.                        *)

FernetEncrypt(k, n, s) == <<Marker, k, n>> \o s \o <<"mac">>

FernetValid(k, t) ==
    /\ Len(t) >= 4
    /\ t[1] = Marker
    /\ t[2] = k
    /\ t[3] \in Nonces
    /\ t[Len(t)] = "mac"

FernetDecrypt(k, t) == SubSeq(t, 4, Len(t) - 1)

\* Fernet(key) accepts exactly a well-formed key.
ValidKey(b) == Len(b) = 1 /\ b[1] \in Keys

-----------------------------------------------------------------------------
(* Key lifecycle *)

NoFile == <<"ENOENT">>

WinProtect(data) == IF envDpapi THEN <<"dpapi">> \o data ELSE None

WinUnprotect(data) ==
    IF envDpapi /\ Len(data) >= 1 /\ data[1] = "dpapi" THEN Tail(data) ELSE None

\* lines 93-105 with os.remove() left out
MigrateOldKey_copyOnly(kf, kfo) ==
    IF kfo # NoFile /\ kf = NoFile /\ envWrite
    THEN [kf  |-> IF Truthy(WinProtect(kfo)) THEN WinProtect(kfo) ELSE kfo,
          kfo |-> kfo]
    ELSE [kf |-> kf, kfo |-> kfo]

\* lines 93-105: move a key found only at the old location
MigrateOldKey(kf, kfo) ==
    IF kfo # NoFile /\ kf = NoFile /\ envWrite
    THEN [kf  |-> IF Truthy(WinProtect(kfo)) THEN WinProtect(kfo) ELSE kfo,
          kfo |-> IF envRemove THEN NoFile ELSE kfo]
    ELSE [kf |-> kf, kfo |-> kfo]

\* lines 107-125: read the key file; key is None when none is usable
LoadKey(kf) ==
    IF kf = NoFile THEN [key |-> None, kf |-> kf]
    ELSE IF Truthy(WinUnprotect(kf)) THEN [key |-> WinUnprotect(kf), kf |-> kf]
    ELSE IF ~ValidKey(kf) THEN [key |-> None, kf |-> kf]
    ELSE IF ~Truthy(WinProtect(kf)) THEN [key |-> kf, kf |-> kf]
    ELSE IF envWrite THEN [key |-> kf, kf |-> WinProtect(kf)]
    ELSE [key |-> None, kf |-> kf]

\* lines 86-137: the key is looked for, moved, loaded or made; g1 and g2 are
\* what the two Fernet.generate_key() calls (lines 129 and 137) would return.
ResolveKey(kf, kfo, g1, g2) ==
    IF ~envMkdir THEN [F |-> g2, kf |-> kf, kfo |-> kfo]
    ELSE LET m == MigrateOldKey(kf, kfo)
             l == LoadKey(m.kf)
         IN  IF ~Truthy(l.key)
             THEN IF envWrite
                  THEN [F   |-> g1,
                        kf  |-> IF Truthy(WinProtect(<<g1>>))
                                THEN WinProtect(<<g1>>) ELSE <<g1>>,
                        kfo |-> m.kfo]
                  ELSE [F |-> g2, kf |-> l.kf, kfo |-> m.kfo]
             ELSE IF ValidKey(l.key)
                  THEN [F |-> l.key[1], kf |-> l.kf, kfo |-> m.kfo]
                  ELSE [F |-> g2, kf |-> l.kf, kfo |-> m.kfo]

\* _get_fernet() with the test of the cached object left out
get_fernet_nocache(F, kf, kfo, g1, g2) ==
    [ran |-> TRUE, log |-> <<>>] @@ ResolveKey(kf, kfo, g1, g2)

\* lines 82-138. ran: the key files were looked at; log: what the call
\* reported (it has no print, log or message box on any path).
get_fernet(F, kf, kfo, g1, g2) ==
    IF F # "None"
    THEN [F |-> F, kf |-> kf, kfo |-> kfo, ran |-> FALSE, log |-> <<>>]
    ELSE [ran |-> TRUE, log |-> <<>>] @@ ResolveKey(kf, kfo, g1, g2)

-----------------------------------------------------------------------------
(* _is_enc, _enc, _dec *)

\* lines 140-144
is_enc(val) == Truthy(val) /\ val[1] = Marker

\* lines 146-153, with f the Fernet _get_fernet() returned and n the nonce
enc(f, n, val) ==
    IF val = None THEN None
    ELSE IF Utf8OK(val) THEN FernetEncrypt(f, n, val)
    ELSE val

\* _dec returning "plain or val": an empty plaintext comes back as the token
dec_falsy(f, val) ==
    IF val = None THEN None
    ELSE IF is_enc(val) /\ Utf8OK(val) /\ FernetValid(f, val)
              /\ FernetDecrypt(f, val) # <<>>
         THEN FernetDecrypt(f, val)
    ELSE val

\* _dec testing "not val" where the code tests "val is None"
dec_notval(f, val) ==
    IF ~Truthy(val) THEN None
    ELSE IF is_enc(val) /\ Utf8OK(val) /\ FernetValid(f, val)
         THEN FernetDecrypt(f, val)
    ELSE val

\* lines 155-165
dec(f, val) ==
    IF val = None THEN None
    ELSE IF is_enc(val) /\ Utf8OK(val) /\ FernetValid(f, val)
         THEN FernetDecrypt(f, val)
    ELSE val

-----------------------------------------------------------------------------
(* Text typed into dialogs, and SQLite's ordering of TEXT *)

\* QLineEdit text is a sequence of these characters.
DialogTexts == {<<" ">>, <<"A">>, <<" ", "A">>, <<"B">>}

Min(S) == CHOOSE i \in S : \A j \in S : i <= j
Max(S) == CHOOSE i \in S : \A j \in S : i >= j

\* str.strip() (lines 1694, 1772, 1876)
strip(t) ==
    LET idx == {i \in 1..Len(t) : t[i] # " "}
    IN  IF idx = {} THEN <<>> ELSE SubSeq(t, Min(idx), Max(idx))

CharRank(c) == CASE c = " " -> 0 [] c = "A" -> 1 [] c = "B" -> 2 [] OTHER -> 3

\* a sorts before b under ORDER BY (BINARY collation)
LessText(a, b) ==
    \E i \in 1..Len(b) :
        /\ \A j \in 1..(i - 1) : j <= Len(a) /\ a[j] = b[j]
        /\ (i > Len(a) \/ CharRank(a[i]) < CharRank(b[i]))

Usernames == {"alice", "bob"}
\* ORDER BY username
UsernameOrder == <<"alice", "bob">>

\* the .ROBLOSECURITY values a login can capture
Cookies == {<<"x">>}

-----------------------------------------------------------------------------
(* accounts.db: the tables and the statements the handlers run *)

\* SQLite NULL in accounts.group_id, Python None in an item's data
NULL == "NULL"

\* the id AUTOINCREMENT gives the next inserted group row
NextGroupId(seq) == ToString(seq + 1)

DB == [accounts |-> accounts, groups |-> groups, seq |-> groupSeq]

\* UPDATE accounts SET group_id=? WHERE username=?  (lines 1712, 1720, 1853, 1855)
SetGroup(u, g) == [op |-> "set_group", u |-> u, g |-> g, name |-> <<>>]
\* UPDATE accounts SET group_id=NULL WHERE group_id=?  (line 1826)
UngroupMembers(g) == [op |-> "ungroup_members", u |-> NULL, g |-> g, name |-> <<>>]
\* DELETE FROM groups WHERE id=?  (line 1827)
DeleteGroupRow(g) == [op |-> "delete_group", u |-> NULL, g |-> g, name |-> <<>>]

\* group_id is declared REFERENCES groups(id) (line 1452), but the connection
\* never sets PRAGMA foreign_keys=ON, so any value is stored
ApplyStmt(db, s) ==
    CASE s.op = "set_group" ->
           [db EXCEPT !.accounts =
               [u \in DOMAIN db.accounts |->
                   IF u = s.u THEN [db.accounts[u] EXCEPT !.group_id = s.g]
                   ELSE db.accounts[u]]]
      [] s.op = "ungroup_members" ->
           [db EXCEPT !.accounts =
               [u \in DOMAIN db.accounts |->
                   IF db.accounts[u].group_id = s.g
                   THEN [db.accounts[u] EXCEPT !.group_id = NULL]
                   ELSE db.accounts[u]]]
      [] s.op = "delete_group" ->
           [db EXCEPT !.groups = [g \in DOMAIN db.groups \ {s.g} |-> db.groups[g]]]

RECURSIVE ApplyAll(_, _)
ApplyAll(db, stmts) ==
    IF stmts = <<>> THEN db
    ELSE ApplyAll(ApplyStmt(db, Head(stmts)), Tail(stmts))

\* "with self.conn:" committing what ran before the statement that raised
RunTxn_autocommit(db, stmts, failAt) ==
    [ok |-> failAt > Len(stmts),
     db |-> ApplyAll(db, SubSeq(stmts, 1, Min({failAt - 1, Len(stmts)})))]

\* "with self.conn:" (sqlite3.Connection.__exit__): commit when the block ends,
\* roll back when a statement raises. failAt is the statement that raises,
\* Len(stmts) + 1 when none does.
RunTxn(db, stmts, failAt) ==
    [ok |-> failAt > Len(stmts),
     db |-> IF failAt > Len(stmts) THEN ApplyAll(db, stmts) ELSE db]

-----------------------------------------------------------------------------
(* The tree widget *)

ROOT == 0

UngroupedText == <<"Ungrouped">>

GroupItem(gid, name) == [kind |-> "group", data |-> gid, base |-> name, alias |-> <<>>]
AccountItem(u, alias) == [kind |-> "account", data |-> u, base |-> <<>>, alias |-> alias]

Range(q) == {q[i] : i \in 1..Len(q)}

\* the first element of q that satisfies P, ROOT when none does
FirstWhere(q, P(_)) ==
    IF \E i \in 1..Len(q) : P(q[i])
    THEN q[Min({i \in 1..Len(q) : P(q[i])})]
    ELSE ROOT

\* lines 987-992, 1602-1607, 1805-1810: the top-level group item whose id is None
FindUngrouped(it, kd) ==
    FirstWhere(kd[ROOT], LAMBDA x : it[x].kind = "group" /\ it[x].data = NULL)

\* lines 993-999: failing that, a top-level group item labelled "Ungrouped"
FindUngroupedByText(it, kd) ==
    IF FindUngrouped(it, kd) # ROOT THEN FindUngrouped(it, kd)
    ELSE FirstWhere(kd[ROOT], LAMBDA x : it[x].kind = "group"
                                         /\ "Ungrouped" \in Range(it[x].base))

NewItemId(it) == Min((1..(MaxItems + 2)) \ DOMAIN it)

ParentOf(kd, x) == CHOOSE p \in DOMAIN kd : x \in Range(kd[p])

RECURSIVE Ancestors(_, _)
Ancestors(kd, x) ==
    IF x = ROOT THEN {} ELSE {ParentOf(kd, x)} \cup Ancestors(kd, ParentOf(kd, x))

Without(q, x) == SelectSeq(q, LAMBDA y : y # x)

\* QTreeWidgetItem.addChild / addTopLevelItem after taking the item out
MoveUnder(kd, x, p) ==
    LET det == [y \in DOMAIN kd |-> Without(kd[y], x)]
    IN  [det EXCEPT ![p] = Append(@, x)]

RECURSIVE MoveAllUnder(_, _, _)
MoveAllUnder(kd, xs, p) ==
    IF xs = <<>> THEN kd ELSE MoveAllUnder(MoveUnder(kd, Head(xs), p), Tail(xs), p)

RECURSIVE GidsByName(_, _)
\* SELECT id, name FROM groups ORDER BY name (line 1496)
GidsByName(grp, S) ==
    IF S = {} THEN <<>>
    ELSE LET g == CHOOSE x \in S : \A y \in S \ {x} : ~LessText(grp[y], grp[x])
         IN  <<g>> \o GidsByName(grp, S \ {g})

\* lines 1490-1557
load_accounts(acc, grp) ==
    LET gs == GidsByName(grp, DOMAIN grp)
        us == SelectSeq(UsernameOrder, LAMBDA u : u \in DOMAIN acc)
        ng == Len(gs)
        n  == 1 + ng + Len(us)
        it == [x \in 1..n |->
                 IF x = 1 THEN GroupItem(NULL, UngroupedText)
                 ELSE IF x <= 1 + ng THEN GroupItem(gs[x - 1], grp[gs[x - 1]])
                 ELSE AccountItem(us[x - 1 - ng], acc[us[x - 1 - ng]].alias)]
        \* group_items.get(group_id, ungrouped), line 1546
        parent(u) == IF \E i \in 1..ng : gs[i] = acc[u].group_id
                     THEN 1 + Min({i \in 1..ng : gs[i] = acc[u].group_id})
                     ELSE 1
        kd == [x \in 0..n |->
                 IF x = ROOT THEN [i \in 1..(1 + ng) |-> i]
                 ELSE IF x <= 1 + ng
                      THEN SelectSeq([j \in 1..Len(us) |-> 1 + ng + j],
                                     LAMBDA a : parent(it[a].data) = x)
                 ELSE <<>>]
    IN  [item |-> it, kids |-> kd]

-----------------------------------------------------------------------------
(* The handlers of the main window *)

keyVars == <<FERNET, keyFile, keyFileOld, keyRuns, keyLog>>

\* a caller of _enc / _dec: _get_fernet() returned f when called is true
UseFernet(called, f) ==
    /\ FERNET' = IF called THEN f.F ELSE FERNET
    /\ keyFile' = IF called THEN f.kf ELSE keyFile
    /\ keyFileOld' = IF called THEN f.kfo ELSE keyFileOld
    /\ keyRuns' = IF called /\ f.ran THEN keyRuns + 1 ELSE keyRuns
    /\ keyLog' = IF called THEN keyLog \o f.log ELSE keyLog
envVars == <<envDpapi, envMkdir, envWrite, envRemove>>
callVars == <<cin, cval, cops, carg, cexc>>
dbVars == <<accounts, groups, groupSeq>>
viewVars == <<item, kids>>
playVars == <<last_played, clock>>

\* what the last handler was, the group and name it was given, whether its
\* statements were committed, and how many rows they had changed by then
Op(op, g, name, ok, n) ==
    [op |-> op, g |-> g, name |-> name, ok |-> ok, n |-> n]

EmptyFn == [x \in {} |-> NULL]

Reverse(q) == [i \in 1..Len(q) |-> q[Len(q) + 1 - i]]

\* the alias texts tried in the Edit Alias dialog
AliasTexts == {<<" ">>, <<"A">>}

\* lines 1608-1615, 1811-1818: the Ungrouped node, created when none is found
WithUngrouped(it, kd) ==
    IF FindUngrouped(it, kd) # ROOT
    THEN [item |-> it, kids |-> kd, ung |-> FindUngrouped(it, kd)]
    ELSE [item |-> it @@ (NewItemId(it) :> GroupItem(NULL, UngroupedText)),
          kids |-> [kd EXCEPT ![ROOT] = Append(@, NewItemId(it))]
                       @@ (NewItemId(it) :> <<>>),
          ung  |-> NewItemId(it)]

\* str(int(time.time())), the name of the directory a login runs in
\* (lines 1562-1564)
TmpDir == "tmp"

\* shutil.rmtree leaving the directory where it is
Rmtree_skipped(prof, d) == prof

\* shutil.rmtree(path, ignore_errors=True) at lines 1570, 1574, 1579, 1586,
\* shutil.rmtree(path) at lines 1591, 1643, 1749
Rmtree(prof, d) == prof \ {d}

\* how the thread of _login_and_capture_cookie_worker (lines 1962-1984) can
\* end: it could not be started, wait_for_url timed out, Chromium raised,
\* the home page came without the cookie, or with it
LoginEnds == {"nothread", "timeout", "browser", "nocookie", "cookie"}

\* lines 1986-1992: an exception of the worker ends the worker's thread and
\* is not raised in the caller, which reads the cookie the worker stored,
\* None when it stored none
login_and_capture_cookie(end, c) ==
    [raised |-> IF end = "nothread" THEN "Exception" ELSE "none",
     cookie |-> IF end = "cookie" THEN c ELSE None]

\* what _resolve_username (lines 2472-2485) returns when it has no name
NoName == ""

\* ModernMessageBox.warning / critical / information(parent, title, text)
MessageBox(title, who, what) == [title |-> title, who |-> who, what |-> what]

\* lines 1560-1598 with the statement of line 1596 replaced by
\* UPDATE accounts SET roblosecurity=? WHERE username=? for a stored username
add_account_update(acc, prof, login, username, token) ==
    LET made == prof \cup {TmpDir}
        fail(title) == [accounts |-> acc, profiles |-> Rmtree(made, TmpDir),
                        box |-> title, added |-> FALSE]
    IN  IF login.raised = "PWTimeoutError" THEN fail("Login timeout")
        ELSE IF login.raised # "none" THEN fail("Chromium error")
        ELSE IF ~Truthy(login.cookie) THEN fail("No cookie")
        ELSE IF username = NoName THEN fail("Error")
        ELSE [accounts |->
                 [x \in DOMAIN acc \cup {username} |->
                     IF x # username THEN acc[x]
                     ELSE IF x \in DOMAIN acc THEN [acc[x] EXCEPT !.roblosecurity = token]
                     ELSE [alias |-> <<>>, group_id |-> NULL, roblosecurity |-> token]],
              profiles |-> (Rmtree(made, username) \ {TmpDir}) \cup {username},
              box |-> "Account Added", added |-> TRUE]

\* lines 1560-1598: the table, the directories and the box add_account
\* leaves, with token the value _enc(roblosec) gives
add_account(acc, prof, login, username, token) ==
    LET made == prof \cup {TmpDir}
        fail(title) == [accounts |-> acc, profiles |-> Rmtree(made, TmpDir),
                        box |-> title, added |-> FALSE]
    IN  IF login.raised = "PWTimeoutError" THEN fail("Login timeout")
        ELSE IF login.raised # "none" THEN fail("Chromium error")
        ELSE IF ~Truthy(login.cookie) THEN fail("No cookie")
        ELSE IF username = NoName THEN fail("Error")
        ELSE [accounts |->
                 \* INSERT OR REPLACE INTO accounts (username, alias, profile_path, roblosecurity)
                 [x \in DOMAIN acc \cup {username} |->
                     IF x = username
                     THEN [alias |-> <<>>, group_id |-> NULL, roblosecurity |-> token]
                     ELSE acc[x]],
              \* lines 1589-1592: the directory is renamed to the username
              profiles |-> (Rmtree(made, username) \ {TmpDir}) \cup {username},
              box |-> "Account Added", added |-> TRUE]

\* lines 1560-1632: Add Account is clicked and the login ends in one way,
\* which lastOp.end keeps; lastOp.u is the username that was resolved and
\* lastOp.c the cookie that was captured
AddAccount ==
    \E end \in LoginEnds, name \in Usernames \cup {NoName}, c \in Cookies, n \in {"n1"},
       g1 \in Keys, g2 \in Keys :
        LET login == login_and_capture_cookie(end, c)
            f  == get_fernet(FERNET, keyFile, keyFileOld, g1, g2)
            r  == add_account(accounts, profiles, login, name, enc(f.F, n, login.cookie))
            w  == WithUngrouped(item, kids)
            id == NewItemId(w.item)
        IN  /\ r.added => id <= MaxItems
            /\ UseFernet(r.added, f)
            /\ accounts' = r.accounts
            /\ profiles' = r.profiles
            /\ shown' = <<MessageBox(r.box, IF r.added THEN name ELSE NoName, "")>>
            /\ IF r.added
               THEN /\ item' = w.item @@ (id :> AccountItem(name, <<>>))
                    /\ kids' = [w.kids EXCEPT ![w.ung] = Append(@, id)] @@ (id :> <<>>)
               ELSE UNCHANGED <<item, kids>>
            /\ lastOp' = Op("add_account", NULL, <<>>, r.added, 0)
                         @@ [end |-> end, u |-> name, c |-> login.cookie]
            /\ steps < MaxSteps /\ steps' = steps + 1
            /\ UNCHANGED <<groups, groupSeq, envVars, ticketVars, fileVars, mutexVars, selected,
                           launches, callVars, playVars,
                   infoVars, jobs>>

\* lines 1634-1644 and 1723-1751
RemoveAccount ==
    \E a \in DOMAIN item :
        /\ item[a].kind = "account"
        /\ accounts' = [x \in DOMAIN accounts \ {item[a].data} |-> accounts[x]]
        /\ \E v \in {load_accounts(accounts', groups)} : item' = v.item /\ kids' = v.kids
        /\ profiles' = Rmtree(profiles, item[a].data)
        /\ lastOp' = Op("remove_account", NULL, <<>>, TRUE, 0)
        /\ steps < MaxSteps /\ steps' = steps + 1
        /\ UNCHANGED <<groups, groupSeq, keyVars, envVars, ticketVars, fileVars, mutexVars, shown,
                       selected, launches, callVars, playVars,
                   infoVars, jobs>>

\* INSERT INTO groups(name) VALUES(?) with the UNIQUE check left out
InsertGroup_noUnique(grp, seq, name) ==
    [ok |-> TRUE, groups |-> grp @@ (NextGroupId(seq) :> name), groupSeq |-> seq + 1]

\* INSERT INTO groups(name) VALUES(?) (line 1698) under
\* id INTEGER PRIMARY KEY AUTOINCREMENT, name TEXT UNIQUE (lines 1432-1435)
InsertGroup(grp, seq, name) ==
    IF \E g \in DOMAIN grp : grp[g] = name
    THEN [ok |-> FALSE, groups |-> grp, groupSeq |-> seq]
    ELSE [ok |-> TRUE, groups |-> grp @@ (NextGroupId(seq) :> name),
          groupSeq |-> seq + 1]

\* lines 1686-1705
CreateGroup ==
    \E t \in DialogTexts :
        LET name == strip(t)
            r == InsertGroup(groups, groupSeq, name)
        IN  /\ name # <<>>
            /\ r.groupSeq <= MaxGroupSeq
            /\ groups' = r.groups
            /\ groupSeq' = r.groupSeq
            /\ IF r.ok
               THEN \E v \in {load_accounts(accounts, r.groups)} :
                        item' = v.item /\ kids' = v.kids
               ELSE \* sqlite3.IntegrityError, line 1700: a warning box
                    UNCHANGED viewVars
            /\ lastOp' = Op("create_group",
                            IF r.ok THEN NextGroupId(groupSeq) ELSE NULL,
                            name, r.ok, 0)
            /\ steps < MaxSteps /\ steps' = steps + 1
            /\ UNCHANGED <<accounts, keyVars, envVars, restVars, callVars, playVars>>

\* lines 1665 and 1707-1713: "Move to <group>" in the menu of an account item
MoveToGroup ==
    \E a \in DOMAIN item, g \in DOMAIN groups :
        /\ item[a].kind = "account"
        /\ accounts' = ApplyStmt(DB, SetGroup(item[a].data, g)).accounts
        /\ \E v \in {load_accounts(accounts', groups)} : item' = v.item /\ kids' = v.kids
        /\ lastOp' = Op("move_to_group", g, <<>>, TRUE, 0)
        /\ steps < MaxSteps /\ steps' = steps + 1
        /\ UNCHANGED <<groups, groupSeq, keyVars, envVars, restVars, callVars, playVars>>

\* lines 1715-1721
RemoveFromGroup ==
    \E a \in DOMAIN item :
        /\ item[a].kind = "account"
        /\ accounts' = ApplyStmt(DB, SetGroup(item[a].data, NULL)).accounts
        /\ \E v \in {load_accounts(accounts', groups)} : item' = v.item /\ kids' = v.kids
        /\ lastOp' = Op("remove_from_group", NULL, <<>>, TRUE, 0)
        /\ steps < MaxSteps /\ steps' = steps + 1
        /\ UNCHANGED <<groups, groupSeq, keyVars, envVars, restVars, callVars, playVars>>

\* the rename done by deleting the row and inserting the name as a new row
RenameRow_newRow(grp, g, name) ==
    IF g \notin DOMAIN grp THEN [ok |-> TRUE, groups |-> grp]
    ELSE IF \E h \in DOMAIN grp \ {g} : grp[h] = name
         THEN [ok |-> FALSE, groups |-> grp]
    ELSE [ok |-> TRUE,
          groups |-> [h \in (DOMAIN grp \ {g}) \cup {NextGroupId(MaxGroupSeq)} |->
                         IF h = g \/ h \notin DOMAIN grp THEN name ELSE grp[h]]]

\* UPDATE groups SET name=? WHERE id=? under name TEXT UNIQUE (line 1777)
RenameRow(grp, g, name) ==
    IF g \notin DOMAIN grp THEN [ok |-> TRUE, groups |-> grp]
    ELSE IF \E h \in DOMAIN grp \ {g} : grp[h] = name
         THEN [ok |-> FALSE, groups |-> grp]
    ELSE [ok |-> TRUE, groups |-> [grp EXCEPT ![g] = name]]

\* lines 1761-1797
RenameGroup ==
    \E gi \in DOMAIN item, t \in DialogTexts :
        LET name == strip(t)
            r == RenameRow(groups, item[gi].data, name)
        IN  /\ item[gi].kind = "group"
            /\ item[gi].data # NULL
            /\ name # <<>>
            /\ groups' = r.groups
            \* line 1781 runs whether or not the UPDATE raised
            /\ item' = [item EXCEPT ![gi].base = name]
            /\ lastOp' = Op("rename_group", item[gi].data, name, r.ok, 0)
            /\ steps < MaxSteps /\ steps' = steps + 1
            /\ UNCHANGED <<accounts, groupSeq, kids, keyVars, envVars, restVars, callVars, playVars>>

\* the statements of the transaction at lines 1825-1827
DeleteGroupStmts_rowOnly(g) == <<DeleteGroupRow(g)>>

DeleteGroupStmts(g) == <<UngroupMembers(g), DeleteGroupRow(g)>>

\* lines 1799-1834
DeleteGroup ==
    \E gi \in DOMAIN item :
        /\ item[gi].kind = "group"
        /\ item[gi].data # NULL
        /\ LET g   == item[gi].data
               w   == WithUngrouped(item, kids)
               kd  == MoveAllUnder(w.kids, w.kids[gi], w.ung)
               top == gi \in Range(kd[ROOT])
           IN  /\ Cardinality(DOMAIN w.item) <= MaxItems
               /\ \E failAt \in 1..(Len(DeleteGroupStmts(g)) + 1) :
                    LET r == RunTxn(DB, DeleteGroupStmts(g), failAt)
                    IN  /\ accounts' = r.db.accounts
                        /\ groups' = r.db.groups
                        /\ IF r.ok /\ top
                           THEN /\ item' = [x \in DOMAIN w.item \ {gi} |-> w.item[x]]
                                /\ kids' = [x \in DOMAIN kd \ {gi} |-> Without(kd[x], gi)]
                           ELSE /\ item' = w.item
                                /\ kids' = kd
                        /\ lastOp' = Op("delete_group", g, <<>>, r.ok,
                                        Cardinality({u \in DOMAIN accounts :
                                            accounts[u].group_id = g}))
        /\ steps < MaxSteps /\ steps' = steps + 1
        /\ UNCHANGED <<groupSeq, keyVars, envVars, restVars, callVars, playVars>>

\* lines 1859-1880
SetAlias ==
    \E a \in DOMAIN item, t \in AliasTexts :
        /\ item[a].kind = "account"
        /\ accounts' = [u \in DOMAIN accounts |->
                          IF u = item[a].data
                          THEN [accounts[u] EXCEPT !.alias = strip(t)]
                          ELSE accounts[u]]
        /\ item' = [item EXCEPT ![a].alias = strip(t)]
        /\ lastOp' = Op("set_alias", NULL, <<>>, TRUE, 0)
        /\ steps < MaxSteps /\ steps' = steps + 1
        /\ UNCHANGED <<groups, groupSeq, kids, keyVars, envVars, restVars, callVars, playVars>>

RECURSIVE SyncUpdates(_, _, _)
\* lines 1838-1847: one update per account item that is a child of a
\* top-level item, with that top-level item's data as the group id
SyncUpdates(it, kd, tops) ==
    IF tops = <<>> THEN <<>>
    ELSE LET cs == SelectSeq(kd[Head(tops)], LAMBDA c : it[c].kind = "account")
         IN  [i \in 1..Len(cs) |-> SetGroup(it[cs[i]].data, it[Head(tops)].data)]
                 \o SyncUpdates(it, kd, Tail(tops))

\* lines 1000-1012: accounts left at top level go under Ungrouped, last first
AdoptOrphans(it, kd) ==
    LET ung == FindUngroupedByText(it, kd)
        orphans == SelectSeq(kd[ROOT], LAMBDA x : it[x].kind = "account")
    IN  IF orphans # <<>> /\ ung # ROOT
        THEN MoveAllUnder(kd, Reverse(orphans), ung)
        ELSE kd

\* lines 982-1019 with 1836-1857: the item src is dropped on the item dst,
\* or on the empty part of the view (ROOT), and the store is brought in line
DropEvent ==
    /\ steps < MaxSteps
    /\ \E src \in DOMAIN item, dst \in DOMAIN item \cup {ROOT} :
        /\ dst # src
        /\ src \notin Ancestors(kids, dst)
        /\ LET kd    == AdoptOrphans(item, MoveUnder(kids, src, dst))
               batch == SyncUpdates(item, kd, kd[ROOT])
           IN  \E failAt \in 1..(Len(batch) + 1) :
                 LET r == RunTxn(DB, batch, failAt)
                 IN  /\ kids' = kd
                     /\ accounts' = r.db.accounts
                     /\ lastOp' = Op("drop", NULL, <<>>, r.ok,
                                     IF ApplyAll(DB, SubSeq(batch, 1, failAt - 1)) # DB
                                     THEN 1 ELSE 0)
    /\ steps' = steps + 1
    /\ UNCHANGED <<groups, groupSeq, item, keyVars, envVars, restVars, callVars, playVars>>

-----------------------------------------------------------------------------
(* Joining a game and the last-played list *)

\* the texts tried in the Place ID field
PlaceTexts == {<<" ">>, <<"a">>, <<"1">>, <<" ", "1">>, <<"a", "1">>, <<"2">>}

Digits == {"0", "1", "2", "3", "4", "5", "6", "7", "8", "9"}

\* re.search(r"\d+", str(place_id)), lines 2141-2145: the first run of
\* digits in the text, None when it has no digit
FirstDigits(t) ==
    IF \A i \in 1..Len(t) : t[i] \notin Digits THEN None
    ELSE LET b == Min({i \in 1..Len(t) : t[i] \in Digits})
             e == Max({j \in b..Len(t) : \A k \in b..j : t[k] \in Digits})
         IN  SubSeq(t, b, e)

\* lines 2127-2231 as _record_last_played() sees them (lines 2116-2119):
\* the name and icon of the place the digits name when the services answer,
\* "Unknown" and no icon otherwise
fetch_game_info(place_id, answered) ==
    IF FirstDigits(place_id) = None \/ ~answered
    THEN [name |-> <<"Unknown">>, icon_url |-> <<>>]
    ELSE [name |-> <<"name">> \o FirstDigits(place_id),
          icon_url |-> <<"icon">> \o FirstDigits(place_id)]

\* INSERT OR REPLACE INTO last_played under PRIMARY KEY(username, place_id),
\* lines 2120-2124 and 1419-1426
UpsertLastPlayed(lp, username, place_id, info, now) ==
    [k \in DOMAIN lp \cup {<<username, place_id>>} |->
        IF k = <<username, place_id>>
        THEN [name |-> info.name, icon_url |-> info.icon_url, played_at |-> now]
        ELSE lp[k]]

\* the texts line 2278 looks for in a stored name
Markers == {"&#", "&amp;", "NEW!", "UPDATE"}

\* line 2278: the stored name holds one of them
NeedsFix(name) == Truthy(name) /\ \E i \in DOMAIN name : name[i] \in Markers

\* SELECT place_id, name, icon_url FROM last_played WHERE username = ?
\* (lines 2255-2258), by place_id
RowsOf(lp, username) ==
    [p \in {k[2] : k \in {j \in DOMAIN lp : j[1] = username}} |->
        [name |-> lp[<<username, p>>].name, icon_url |-> lp[<<username, p>>].icon_url]]

\* lines 2249-2299 with username the account of the current item: the
\* threads under way after the list was filled, one more when a name
\* needs a fix (lines 2281-2299)
refresh_last_played(jb, lp, username) ==
    IF \E p \in DOMAIN RowsOf(lp, username) : NeedsFix(RowsOf(lp, username)[p].name)
    THEN Append(jb, [u |-> username, rows |-> RowsOf(lp, username),
                     stage |-> "fetching", updates |-> EmptyFn])
    ELSE jb

\* "if not token", "if not ticket" with the check left out
HeaderMissing_never(v) == FALSE

\* "if not token" (line 2429), "if not ticket" (line 2434)
HeaderMissing(v) == ~Truthy(v)

\* lines 2420-2436 as one call: r1 and r2 are the header values the two
\* responses carry, resp the header values the call has read
get_auth_ticket(r1, r2) ==
    IF HeaderMissing(r1)
    THEN [err |-> "Failed to obtain CSRF token", ticket |-> None, resp |-> <<r1>>]
    ELSE IF HeaderMissing(r2)
         THEN [err |-> "Authentication ticket header missing", ticket |-> None,
               resp |-> <<r1, r2>>]
    ELSE [err |-> "none", ticket |-> r2, resp |-> <<r1, r2>>]

\* the header values the two responses of one exchange can carry; the
\* second is not asked for when the first carries no token
HandshakeAnswers ==
    {r \in [r1 : {None, <<"t1">>}, r2 : {None, <<"T1">>}] : r.r1 = None => r.r2 = None}

\* lines 2114-2125 without the except clause of lines 2118-2119: the
\* RuntimeError of line 2143 reaches the caller and no row is written
record_last_played_uncaught(lp, username, place_id, answered, now) ==
    IF FirstDigits(place_id) = None
    THEN [raised |-> TRUE, last_played |-> lp]
    ELSE [raised |-> FALSE,
          last_played |-> UpsertLastPlayed(lp, username, place_id,
                                           fetch_game_info(place_id, answered), now)]

\* lines 2114-2125: whatever _fetch_game_info did, the row is written
record_last_played(lp, username, place_id, answered, now) ==
    [raised |-> FALSE,
     last_played |-> UpsertLastPlayed(lp, username, place_id,
                                      fetch_game_info(place_id, answered), now)]

\* lines 1933-1959: Join with item a current and text t in the Place ID
\* field. lastOp.ok tells that the URI was handed to webbrowser.open,
\* lastOp.n the number of lookups of _fetch_game_info that gave the game,
\* lastOp.u the username the Join was made for, lastOp.resp the header
\* values its ticket exchange read.
JoinServer ==
    \E a \in DOMAIN item, t \in PlaceTexts, g1 \in Keys, g2 \in Keys,
       hs \in HandshakeAnswers, answered \in BOOLEAN, now \in {clock, clock + 1} :
        LET place_id == strip(t)
            tk       == get_auth_ticket(hs.r1, hs.r2)
            ticket   == tk.err = "none"
            username == IF item[a].kind = "account" THEN item[a].data ELSE NULL
            found    == username \in DOMAIN accounts
            f        == get_fernet(FERNET, keyFile, keyFileOld, g1, g2)
            \* _get_account() calls _dec() on a stored cookie that is not empty
            decrypts == /\ place_id # <<>>
                        /\ found
                        /\ Truthy(accounts[username].roblosecurity)
            launched == place_id # <<>> /\ found /\ ticket
            r        == record_last_played(last_played, username, place_id, answered, now)
        IN  /\ steps < MaxSteps /\ steps' = steps + 1
            /\ UseFernet(decrypts, f)
            /\ IF launched /\ ~r.raised
               THEN /\ last_played' = r.last_played
                    /\ clock' = now
                    /\ jobs' = refresh_last_played(jobs, r.last_played, username)
                    /\ Len(jobs') <= MaxJobs
               ELSE UNCHANGED <<playVars, jobs>>
            /\ shown' =
                  IF place_id = <<>>
                  THEN <<MessageBox("Error", NoName, "Please enter a Place ID")>>
                  ELSE IF found /\ ~ticket
                  THEN <<MessageBox("Error", NoName, "Failed to get auth ticket")>>
                  ELSE IF launched /\ r.raised
                  THEN <<MessageBox("Error", NoName, "Failed to launch Roblox player")>>
                  ELSE <<>>
            /\ lastOp' = Op("join_server", NULL, place_id, launched,
                            IF launched /\ answered /\ FirstDigits(place_id) # None
                            THEN 1 ELSE 0)
                         @@ [u |-> username,
                             resp |-> IF place_id # <<>> /\ found THEN tk.resp ELSE <<>>]
            /\ UNCHANGED <<dbVars, viewVars, envVars, ticketVars, fileVars, mutexVars, profiles,
                           selected, launches, callVars, infoVars>>

\* lines 2320-2336: the entries S of the account item a are removed
DeleteLastPlayed ==
    \E a \in DOMAIN item :
        /\ item[a].kind = "account"
        /\ \E S \in SUBSET {k \in DOMAIN last_played : k[1] = item[a].data} :
             /\ S # {}
             /\ last_played' = [k \in DOMAIN last_played \ S |-> last_played[k]]
        /\ steps < MaxSteps /\ steps' = steps + 1
        /\ jobs' = refresh_last_played(jobs, last_played', item[a].data)
        /\ Len(jobs') <= MaxJobs
        /\ lastOp' = Op("delete_last_played", NULL, <<>>, TRUE, 0)
        /\ UNCHANGED <<dbVars, viewVars, clock, keyVars, envVars, ticketVars, fileVars,
                       uiVars, mutexVars, infoVars, callVars>>

\* line 1121: an account item becomes the current one and the list is
\* filled again; the step is seen when it starts a thread
SelectAccount ==
    \E a \in DOMAIN item :
        /\ item[a].kind = "account"
        /\ jobs' = refresh_last_played(jobs, last_played, item[a].data)
        /\ jobs' # jobs
        /\ Len(jobs') <= MaxJobs
        /\ UNCHANGED <<cipherVars, storeVars, ticketVars, fileVars, uiVars, mutexVars,
                       infoVars>>

\* what one call of _fetch_game_info(pid) in the thread can do
FetchEnds == {"raise", "down", "up"}

\* lines 2283-2293: the updates the thread collects from its snapshot rows
\* when the lookups end as out says
bg_fix_names(rows, out) ==
    LET new(p) == fetch_game_info(p, out[p] = "up")
        kept   == {p \in DOMAIN rows :
                      /\ out[p] # "raise"
                      /\ Truthy(new(p).name)
                      /\ \/ new(p).name # rows[p].name
                         \/ Truthy(new(p).icon_url) /\ new(p).icon_url # rows[p].icon_url}
    IN  [p \in kept |->
            [name |-> new(p).name,
             icon_url |-> IF Truthy(new(p).icon_url) THEN new(p).icon_url
                          ELSE rows[p].icon_url]]

\* lines 2282-2295: the thread of job i runs to its end and posts the call
BgFixNames ==
    \E i \in DOMAIN jobs :
        /\ jobs[i].stage = "fetching"
        /\ \E out \in [DOMAIN jobs[i].rows -> FetchEnds] :
             jobs' = [jobs EXCEPT ![i].stage = "posted",
                                  ![i].updates = bg_fix_names(jobs[i].rows, out)]
        /\ UNCHANGED <<cipherVars, storeVars, ticketVars, fileVars, uiVars, mutexVars,
                       infoVars>>

\* lines 2311-2315 with INSERT OR REPLACE INTO last_played in place of UPDATE
apply_last_played_updates_replace(lp, username, updates) ==
    [k \in DOMAIN lp \cup {<<username, p>> : p \in DOMAIN updates} |->
        IF k[1] = username /\ k[2] \in DOMAIN updates
        THEN [name |-> updates[k[2]].name, icon_url |-> updates[k[2]].icon_url,
              played_at |-> 0]
        ELSE lp[k]]

\* lines 2311-2315: UPDATE last_played SET name=?, icon_url=?
\* WHERE username=? AND place_id=? for every update
apply_last_played_updates(lp, username, updates) ==
    [k \in DOMAIN lp |->
        IF k[1] = username /\ k[2] \in DOMAIN updates
        THEN [lp[k] EXCEPT !.name = updates[k[2]].name,
                           !.icon_url = updates[k[2]].icon_url]
        ELSE lp[k]]

\* lines 2306-2317: the call posted by job i runs, with item a current or,
\* a = ROOT, no account item current
ApplyLastPlayedUpdates ==
    \E i \in DOMAIN jobs, a \in DOMAIN item \cup {ROOT} :
        LET done == [jobs EXCEPT ![i].stage = "applied"]
        IN  /\ jobs[i].stage = "posted"
            /\ a \in DOMAIN item => item[a].kind = "account"
            /\ steps < MaxSteps /\ steps' = steps + 1
            /\ IF DOMAIN jobs[i].updates = {}
               THEN /\ jobs' = done
                    /\ UNCHANGED last_played
               ELSE /\ last_played' =
                          apply_last_played_updates(last_played, jobs[i].u, jobs[i].updates)
                    /\ jobs' = IF a = ROOT THEN done
                               ELSE refresh_last_played(done, last_played', item[a].data)
                    /\ Len(jobs') <= MaxJobs
            /\ lastOp' = Op("apply_last_played_updates", NULL, <<>>, TRUE, 0)
            /\ UNCHANGED <<dbVars, viewVars, clock, keyVars, envVars, ticketVars, fileVars,
                           uiVars, mutexVars, infoVars, callVars>>

-----------------------------------------------------------------------------
(* The auth-ticket exchange *)

\* what a response header can hold: absent, empty, or a value
CsrfValues == {None, <<>>, <<"t1">>, <<"t2">>}
TicketValues == {None, <<>>, <<"T1">>, <<"T2">>}

\* a POST to https://auth.roblox.com/v1/authentication-ticket/ (lines 2427, 2432)
TicketRequest(roblosec, place_id, csrf) ==
    [cookie |-> roblosec, referer |-> place_id, csrf |-> csrf]

\* the second POST sent with the headers of the first
SecondRequest_noToken(first, token) == first

\* headers["X-CSRF-TOKEN"] = token (line 2431) and the second POST (line 2432)
SecondRequest(first, token) == [first EXCEPT !.csrf = token]

\* lines 2422-2427: the session is set up and the first POST is sent
TicketPost1 ==
    /\ tkPc = "idle"
    /\ tkCalls < MaxCalls
    /\ \E c \in Cookies \cup {<<"y">>}, t \in {<<"1">>, <<"2">>} :
         tkReqs' = <<TicketRequest(c, t, None)>>
    /\ tkPc' = "post1"
    /\ tkResp' = <<>>
    /\ tkOut' = None
    /\ tkErr' = "none"
    /\ tkCalls' = tkCalls + 1
    /\ UNCHANGED <<cipherVars, storeVars, fileVars, uiVars, mutexVars,
                   infoVars, jobs>>

\* lines 2427-2432: the first POST returns or raises; with a token the
\* second POST is sent
TicketPost1Returns ==
    /\ tkPc = "post1"
    /\ \/ \* requests raises (no connection)
          /\ tkErr' = "request"
          /\ tkPc' = "idle"
          /\ UNCHANGED <<tkReqs, tkResp>>
       \/ \E token \in CsrfValues :
            /\ tkResp' = Append(tkResp, token)
            /\ IF HeaderMissing(token)
               THEN /\ tkErr' = "Failed to obtain CSRF token"
                    /\ tkPc' = "idle"
                    /\ UNCHANGED tkReqs
               ELSE /\ tkReqs' = Append(tkReqs, SecondRequest(tkReqs[1], token))
                    /\ tkPc' = "post2"
                    /\ UNCHANGED tkErr
    /\ UNCHANGED <<tkOut, tkCalls, cipherVars, storeVars, fileVars, uiVars, mutexVars,
                   infoVars, jobs>>

\* lines 2432-2436: the second POST returns or raises
TicketPost2Returns ==
    /\ tkPc = "post2"
    /\ \/ /\ tkErr' = "request"
          /\ UNCHANGED <<tkResp, tkOut>>
       \/ \E ticket \in TicketValues :
            /\ tkResp' = Append(tkResp, ticket)
            /\ IF HeaderMissing(ticket)
               THEN tkErr' = "Authentication ticket header missing" /\ UNCHANGED tkOut
               ELSE tkOut' = ticket /\ UNCHANGED tkErr
    /\ tkPc' = "idle"
    /\ UNCHANGED <<tkReqs, tkCalls, cipherVars, storeVars, fileVars, uiVars, mutexVars,
                   infoVars, jobs>>

-----------------------------------------------------------------------------
(* Launching several accounts from the settings dialog *)

\* webbrowser.open(uri): it returns True when a handler took the URI, False
\* when none did, or raises webbrowser.Error
OpenResults == {"True", "False", "Error"}

\* what the network and the desktop do for one account of a launch; a
\* response that is never asked for is left out
LaunchEnvs ==
    {e \in [r1 : {None, <<"t1">>}, r2 : {None, <<"T1">>}, open : OpenResults] :
        /\ e.r1 = None => e.r2 = None
        /\ e.r2 = None => e.open = "True"}

\* lines 2103-2111 and 2654-2665: err is the message of the exception the
\* call raised ("none" when it returned), opened tells that the URI was
\* handed to webbrowser.open, started that a handler took it, resp holds
\* the header values the ticket exchange read
launch_game_for_account(acc, F, username, env) ==
    LET stop(msg, resp) == [err |-> msg, opened |-> FALSE, started |-> FALSE,
                            resp |-> resp]
        stored    == acc[username].roblosecurity
        roblosec  == IF Truthy(stored) THEN dec(F, stored) ELSE None
        t         == get_auth_ticket(env.r1, env.r2)
    IN  IF username \notin DOMAIN acc THEN stop("Account not found", <<>>)
        ELSE IF ~Truthy(roblosec) THEN stop("Missing .ROBLOSECURITY for account", <<>>)
        ELSE IF t.err # "none" THEN stop(t.err, t.resp)
        ELSE [err     |-> IF env.open = "Error" THEN "webbrowser.Error" ELSE "none",
              opened  |-> TRUE,
              started |-> env.open = "True",
              resp    |-> t.resp]

\* lines 2632-2639: the try statement is inside the for loop, so after an
\* exception the loop goes on with the accounts that follow
AfterFailure(rest) == rest

\* lines 2631-2639: the loop over the selected usernames
RECURSIVE LaunchEach(_, _, _, _)
LaunchEach(sel, acc, F, env) ==
    IF sel = <<>> THEN <<>>
    ELSE LET r    == launch_game_for_account(acc, F, Head(sel), env[Head(sel)])
             rest == IF r.err = "none" THEN Tail(sel) ELSE AfterFailure(Tail(sel))
         IN  <<[u |-> Head(sel), err |-> r.err, opened |-> r.opened,
                started |-> r.started, resp |-> r.resp]>>
             \o LaunchEach(rest, acc, F, env)

\* line 2639: one warning for each account whose launch raised
LaunchWarnings(done) ==
    LET bad == SelectSeq(done, LAMBDA d : d.err # "none")
    IN  [i \in 1..Len(bad) |-> MessageBox("Launch error", bad[i].u, bad[i].err)]

\* line 2647: 1 if self.multi_instance_enabled else 0
SaveSetting(enabled) == IF enabled THEN "1" ELSE "0"

\* the selections of the list of lines 2566-2578: its rows are the rows of
\* accounts
Selections ==
    {q \in UNION {[1..n -> DOMAIN accounts] : n \in 0..Cardinality(DOMAIN accounts)} :
        \A i \in DOMAIN q, j \in DOMAIN q : q[i] = q[j] => i = j}

\* lines 2617-2641: Launch Selected is clicked with the selection sel, t1
\* in the dialog's Place ID field and t2 in the main window's
DoLaunch ==
    \E t1 \in {<<" ">>, <<"1">>}, t2 \in {<<>>, <<"2">>}, sel \in Selections, g1 \in Keys :
    \E env \in [Range(sel) -> LaunchEnvs], g2 \in {g1} :
        LET pid  == IF strip(t1) # <<>> THEN strip(t1) ELSE strip(t2)
            f    == get_fernet(FERNET, keyFile, keyFileOld, g1, g2)
            done == LaunchEach(sel, accounts, f.F, env)
            \* _get_account() calls _dec() on a stored cookie that is not empty
            decrypts == \E i \in DOMAIN done : Truthy(accounts[done[i].u].roblosecurity)
        IN  /\ steps < MaxSteps /\ steps' = steps + 1
            /\ selected' = sel
            /\ IF sel = <<>>
               THEN /\ shown' = <<MessageBox("No accounts", NoName, "")>>
                    /\ launches' = <<>>
                    /\ UNCHANGED keyVars
               ELSE IF pid = <<>>
               THEN /\ shown' = <<MessageBox("Missing Place ID", NoName, "")>>
                    /\ launches' = <<>>
                    /\ UNCHANGED keyVars
               ELSE /\ shown' = LaunchWarnings(done)
                    /\ launches' = done
                    /\ UseFernet(decrypts, f)
            /\ lastOp' = Op("do_launch", NULL, pid, sel # <<>> /\ pid # <<>>, Len(sel))
            \* line 2640: dlg.accept() ends the dialog, which runs on_close
            /\ IF sel # <<>> /\ pid # <<>>
               THEN /\ saved_multi_instance' = SaveSetting(multi_instance_enabled)
                    /\ patcher_started' = (patcher_started \/ multi_instance_enabled)
               ELSE UNCHANGED <<saved_multi_instance, patcher_started>>
            /\ UNCHANGED <<dbVars, viewVars, envVars, callVars, playVars, ticketVars,
                           fileVars, profiles, multi_instance_enabled, cleared,
                   infoVars, jobs>>

-----------------------------------------------------------------------------
(* Starting the program on an accounts.db: create_table(), migrate_table() *)

\* lines 1404-1437: CREATE TABLE IF NOT EXISTS groups (id, name UNIQUE)
create_table(sc) == [sc EXCEPT !.groups = IF @ = "none" THEN "keyed" ELSE @]

\* the orders in which SELECT DISTINCT name FROM groups can give the names
Orders(S) == {q \in [1..Cardinality(S) -> S] : \A x \in S : \E i \in DOMAIN q : q[i] = x}

\* lines 1461-1466 copying only the first name
KeyGroups_first(order) ==
    IF order = <<>> THEN <<>> ELSE (NextGroupId(0) :> order[1])

\* lines 1461-1466: groups_new(id AUTOINCREMENT, name UNIQUE) filled by
\* INSERT OR IGNORE ... SELECT DISTINCT name, then renamed to groups
KeyGroups(order) ==
    [g \in {NextGroupId(i - 1) : i \in 1..Len(order)} |->
        order[CHOOSE i \in 1..Len(order) : NextGroupId(i - 1) = g]]

\* line 1478 with the test of the marker left out
NeedsEnc_always(cookie) == Truthy(cookie)

\* line 1478: "cookie and not _is_enc(cookie)"
NeedsEnc(cookie) == Truthy(cookie) /\ ~is_enc(cookie)

\* lines 1474-1484: the rows as the UPDATE statements leave them
EncryptRows(acc, f, nn) ==
    [u \in DOMAIN acc |->
        IF NeedsEnc(acc[u].roblosecurity)
        THEN [acc[u] EXCEPT !.roblosecurity = enc(f, nn[u], @)]
        ELSE acc[u]]

\* line 2496: bool(int(row[0])) if row else False
LoadSetting(row) == row = "1"

\* lines 918-921 and load_accounts(): the program is started. It is killed
\* after stage stop when stop < 5; failed tells that the transaction of
\* lines 1482-1485 raised, which lines 1486-1488 swallow. lastOp.ok tells
\* that migrate_table() ran to its end with no statement raising, lastOp.n
\* the number of rows the run rewrote, lastOp.g the number of rows of the
\* table groups(name) when the run replaced it.
OpenStore ==
    /\ ~opened
    /\ opens < MaxOpens
    /\ \E stop \in 1..5, failed \in BOOLEAN, g1 \in Keys, g2 \in Keys,
          nn \in [Usernames -> Nonces], order \in Orders({groups[g] : g \in DOMAIN groups}) :
         LET sc0   == create_table(schema)
             sc1   == IF stop >= 2 THEN [sc0 EXCEPT !.cookie = TRUE] ELSE sc0
             sc2   == IF stop >= 3 THEN [sc1 EXCEPT !.group = TRUE] ELSE sc1
             rekey == stop >= 4 /\ sc2.groups = "unkeyed"
             sc3   == IF rekey THEN [sc2 EXCEPT !.groups = "keyed"] ELSE sc2
             grp   == IF rekey THEN KeyGroups(order) ELSE groups
             need  == {u \in DOMAIN accounts : NeedsEnc(accounts[u].roblosecurity)}
             f     == get_fernet(FERNET, keyFile, keyFileOld, g1, g2)
             acc   == IF stop = 5 /\ ~failed
                      THEN EncryptRows(accounts, f.F, nn) ELSE accounts
         IN  /\ schema' = sc3
             /\ groups' = grp
             /\ groupSeq' = IF rekey THEN Len(order) ELSE groupSeq
             /\ UseFernet(stop = 5 /\ need # {}, f)
             /\ accounts' = acc
             /\ rewrites' = [u \in Usernames |->
                                IF u \in DOMAIN acc /\ acc[u] # accounts[u]
                                THEN rewrites[u] + 1 ELSE rewrites[u]]
             /\ opened' = (stop = 5)
             /\ IF stop = 5
                THEN \E v \in {load_accounts(acc, grp)} :
                         item' = v.item /\ kids' = v.kids
                ELSE UNCHANGED viewVars
             /\ lastOp' = Op("open",
                             IF rekey THEN ToString(Cardinality(DOMAIN groups)) ELSE NULL,
                             <<>>, stop = 5 /\ (need = {} \/ ~failed),
                             Cardinality({u \in DOMAIN acc : acc[u] # accounts[u]}))
    /\ opens' = opens + 1
    /\ IF opened'
       THEN /\ multi_instance_enabled' = LoadSetting(saved_multi_instance)
            \* lines 1167-1169
            /\ patcher_started' = LoadSetting(saved_multi_instance)
       ELSE UNCHANGED <<multi_instance_enabled, patcher_started>>
    /\ UNCHANGED <<envVars, callVars, steps, playVars, ticketVars, uiVars, cleared,
                   saved_multi_instance,
                   infoVars, jobs>>

\* the window is closed and the process ends (lines 2988-2990)
CloseStore ==
    /\ opened
    /\ opened' = FALSE
    /\ FERNET' = "None"
    /\ keyRuns' = 0
    /\ item' = <<>>
    /\ kids' = (ROOT :> <<>>)
    /\ lastOp' = Op("close", NULL, <<>>, TRUE, 0)
    \* the daemon threads end with the process
    /\ jobs' = <<>>
    /\ multi_instance_enabled' = FALSE
    /\ patcher_started' = FALSE
    /\ UNCHANGED <<keyFile, keyFileOld, keyLog, envVars, callVars, dbVars, steps,
                   playVars, ticketVars, schema, opens, rewrites, uiVars, cleared,
                   saved_multi_instance,
                   infoVars>>

-----------------------------------------------------------------------------
(* The cipher on its own: a value is drawn, then encrypted, decrypted,     *)
(* damaged at rest, or carried over a restart of the process.              *)

\* accounts.db as create_table() leaves a new file, and the tree
\* load_accounts() builds from it
\* no call of _get_auth_ticket has been made
InitTicket ==
    /\ tkPc = "idle"
    /\ tkReqs = <<>>
    /\ tkResp = <<>>
    /\ tkOut = None
    /\ tkErr = "none"
    /\ tkCalls = 0

\* accounts.db as create_table() and migrate_table() leave it
Upgraded == [cookie |-> TRUE, group |-> TRUE, groups |-> "keyed"]

\* the program is running on an upgraded accounts.db
InitFile ==
    /\ schema = Upgraded
    /\ opened = TRUE
    /\ opens = 1
    /\ rewrites = [u \in Usernames |-> 0]

\* every account has its directory, and no dialog was shown yet
InitUi ==
    /\ profiles = DOMAIN accounts
    /\ shown = <<>>
    /\ selected = <<>>
    /\ launches = <<>>

\* the feature is off, as _load_settings() leaves it on a file without the
\* settings row (lines 2495-2497)
InitMutexOff ==
    /\ multi_instance_enabled = FALSE
    /\ patcher_started = FALSE
    /\ cleared = 0
    /\ saved_multi_instance = "none"

\* no lookup is under way and no refresh thread runs
InitInfo ==
    /\ lookups = <<>>
    /\ game_info = <<>>
    /\ jobs = <<>>

InitRest == InitTicket /\ InitFile /\ InitUi /\ InitMutexOff /\ InitInfo

\* the window opened on the store db: lines 918-921 and load_accounts()
InitStoreFrom(db) ==
    /\ accounts = db.accounts
    /\ groups = db.groups
    /\ groupSeq = db.groupSeq
    /\ item = load_accounts(db.accounts, db.groups).item
    /\ kids = load_accounts(db.accounts, db.groups).kids
    /\ steps = 0
    /\ last_played = <<>>
    /\ clock = 0
    /\ InitRest
    /\ lastOp = Op("none", NULL, <<>>, TRUE, 0)

\* accounts.db as create_table() leaves a new file
NewStore == [accounts |-> EmptyFn, groups |-> EmptyFn, groupSeq |-> 0]

\* accounts.db as an earlier run left it: group "A" holding alice, bob ungrouped
UsedStore ==
    [accounts |->
        [u \in Usernames |->
            [alias |-> <<>>,
             group_id |-> IF u = "alice" THEN NextGroupId(0) ELSE NULL,
             roblosecurity |-> FernetEncrypt("k1", "n1", <<"x">>)]],
     groups |-> (NextGroupId(0) :> <<"A">>),
     groupSeq |-> 1]

InitStore == InitStoreFrom(NewStore)

InitCipher ==
    /\ FERNET = "None"
    /\ keyRuns = 0
    /\ keyLog = <<>>
    /\ keyFile \in {NoFile, <<"k1">>, <<"x">>}
    /\ keyFileOld = NoFile
    /\ envDpapi \in BOOLEAN
    /\ envMkdir \in BOOLEAN
    /\ envWrite \in BOOLEAN
    /\ envRemove = TRUE
    /\ cin \in StrUpTo(MaxLen) \cup {None}
    /\ cval = cin
    /\ cops = <<>>
    /\ carg = None
    /\ cexc = FALSE
    /\ InitStore

CallEnc ==
    /\ Len(cops) < MaxOps
    /\ \E g1 \in Keys, g2 \in Keys, n \in Nonces :
         LET r == get_fernet(FERNET, keyFile, keyFileOld, g1, g2)
         IN  /\ UseFernet(cval # None, r)
             /\ cval' = enc(r.F, n, cval)
    /\ cops' = Append(cops, "enc")
    /\ carg' = cval
    /\ cexc' = FALSE
    /\ UNCHANGED <<envVars, restVars, cin, storeVars>>

CallDec ==
    /\ Len(cops) < MaxOps
    /\ \E g1 \in Keys, g2 \in Keys :
         LET r == get_fernet(FERNET, keyFile, keyFileOld, g1, g2)
         IN  /\ UseFernet(cval # None, r)
             /\ cval' = dec(r.F, cval)
    /\ cops' = Append(cops, "dec")
    /\ carg' = cval
    /\ cexc' = FALSE
    /\ UNCHANGED <<envVars, restVars, cin, storeVars>>

\* One character of a token just produced is changed at rest.
Tamper ==
    /\ cops = <<"enc">>
    /\ cval # None
    /\ \E i \in 1..Len(cval), c \in {"x"} :
         /\ c # cval[i]
         /\ cval' = [cval EXCEPT ![i] = c]
    /\ cops' = Append(cops, "tamper")
    /\ UNCHANGED <<keyVars, envVars, restVars, cin, carg, cexc, storeVars>>

\* The process ends and a new one starts: the module global is None again.
Restart ==
    /\ Len(cops) < MaxOps
    /\ FERNET # "None"
    /\ FERNET' = "None"
    /\ keyRuns' = 0
    /\ cops' = Append(cops, "restart")
    /\ UNCHANGED <<keyFile, keyFileOld, keyLog, envVars, restVars, cin, cval, carg, cexc,
                 storeVars>>

\* The key files and the machine in every combination, and a secret that
\* was stored under the key at the old location.
InitKey ==
    /\ FERNET = "None"
    /\ keyRuns = 0
    /\ keyLog = <<>>
    /\ keyFile \in {NoFile, <<"k1">>, <<"dpapi", "k1">>, <<"x">>}
    /\ keyFileOld \in {NoFile, <<"k2">>, <<"x">>}
    /\ envDpapi \in BOOLEAN
    /\ envMkdir \in BOOLEAN
    /\ envWrite \in BOOLEAN
    /\ envRemove \in BOOLEAN
    /\ cin \in {<<>>, <<"x">>, FernetEncrypt("k2", "n1", <<"x">>)}
    /\ cval = cin
    /\ cops = <<>>
    /\ carg = None
    /\ cexc = FALSE
    /\ InitStore

NextCipher == CallEnc \/ CallDec \/ Tamper \/ Restart

SpecCipher == InitCipher /\ [][NextCipher]_vars

SpecKey == InitKey /\ [][NextCipher]_vars

-----------------------------------------------------------------------------
(* The store and the tree: a new accounts.db on a machine with DPAPI and a  *)
(* wrapped key in place, driven by the handlers of the main window.        *)

Init ==
    /\ FERNET = "None"
    /\ keyRuns = 0
    /\ keyLog = <<>>
    /\ keyFile = <<"dpapi", "k1">>
    /\ keyFileOld = NoFile
    /\ envDpapi = TRUE
    /\ envMkdir = TRUE
    /\ envWrite = TRUE
    /\ envRemove = TRUE
    /\ cin = None
    /\ cval = None
    /\ cops = <<>>
    /\ carg = None
    /\ cexc = FALSE
    /\ \E db \in {NewStore, UsedStore} : InitStoreFrom(db)

Next ==
    \/ AddAccount
    \/ RemoveAccount
    \/ CreateGroup
    \/ MoveToGroup
    \/ RemoveFromGroup
    \/ RenameGroup
    \/ DeleteGroup
    \/ SetAlias
    \/ DropEvent

Spec == Init /\ [][Next]_vars

\* the same window, used to join games
NextPlay == JoinServer \/ DeleteLastPlayed

SpecPlay == Init /\ [][NextPlay]_vars

\* the values a cookie column can hold before the program is started
CookiesAtRest == {None, <<>>, <<"x">>, FernetEncrypt("k1", "n1", <<"x">>)}

\* a groups table, rows numbered from 1, with the given names
GroupRows(names) == [g \in {NextGroupId(i - 1) : i \in 1..Len(names)} |->
                        names[CHOOSE i \in 1..Len(names) : NextGroupId(i - 1) = g]]

\* the files accounts.db an earlier version of the program, or a run of
\* this one that was killed, can have left
StoredFiles ==
    {[accounts |-> acc, groups |-> grp, schema |-> sc] :
        acc \in UNION {[S -> [alias : {<<>>}, group_id : {NULL},
                               roblosecurity : CookiesAtRest]] :
                          S \in SUBSET Usernames},
        grp \in {GroupRows(q) :
                    q \in UNION {[1..n -> {<<"A">>, <<"B">>}] : n \in 0..MaxLegacy}},
        sc \in [cookie : BOOLEAN, group : BOOLEAN,
                 groups : {"none", "unkeyed", "keyed"}]}

\* the file is one a version of the program can have written
WellFormed(db) ==
    /\ ~db.schema.cookie =>
          \A u \in DOMAIN db.accounts : db.accounts[u].roblosecurity = None
    /\ db.schema.groups = "none" => db.groups = <<>>
    /\ db.schema.groups = "keyed" =>
          \A g \in DOMAIN db.groups, h \in DOMAIN db.groups :
              db.groups[g] = db.groups[h] => g = h

\* the program has not been started yet on the file
InitMigrate ==
    /\ FERNET = "None"
    /\ keyRuns = 0
    /\ keyLog = <<>>
    /\ keyFile = <<"dpapi", "k1">>
    /\ keyFileOld = NoFile
    /\ envDpapi = TRUE
    /\ envMkdir = TRUE
    /\ envWrite = TRUE
    /\ envRemove = TRUE
    /\ cin = None
    /\ cval = None
    /\ cops = <<>>
    /\ carg = None
    /\ cexc = FALSE
    /\ \E db \in StoredFiles :
         /\ WellFormed(db)
         /\ accounts = db.accounts
         /\ groups = db.groups
         /\ groupSeq = IF db.schema.groups = "keyed" THEN Cardinality(DOMAIN db.groups)
                       ELSE 0
         /\ schema = db.schema
    /\ item = <<>>
    /\ kids = (ROOT :> <<>>)
    /\ steps = 0
    /\ last_played = <<>>
    /\ clock = 0
    /\ lastOp = Op("none", NULL, <<>>, TRUE, 0)
    /\ InitTicket
    /\ InitUi
    /\ InitMutexOff
    /\ InitInfo
    /\ opened = FALSE
    /\ opens = 0
    /\ rewrites = [u \in Usernames |-> 0]

NextMigrate == OpenStore \/ CloseStore

SpecMigrate == InitMigrate /\ [][NextMigrate]_vars

\* the cookie a version without encryption stored as it was captured
LegacyCookie == <<"x">>

\* the program has not been started yet on an upgraded file without
\* groups, on a machine where the key directory can be made; the key file
\* is absent, holds the wrapped key k1 or is damaged, and DPAPI and the
\* write of the key file work or fail
InitRestart ==
    /\ FERNET = "None"
    /\ keyRuns = 0
    /\ keyLog = <<>>
    /\ keyFile \in {NoFile, <<"dpapi", "k1">>, <<"x">>}
    /\ keyFileOld = NoFile
    /\ envDpapi \in BOOLEAN
    /\ envMkdir = TRUE
    /\ envWrite \in BOOLEAN
    /\ envRemove = TRUE
    /\ cin = None
    /\ cval = None
    /\ cops = <<>>
    /\ carg = None
    /\ cexc = FALSE
    /\ \E db \in StoredFiles :
         /\ WellFormed(db)
         /\ db.schema = Upgraded
         /\ db.groups = <<>>
         /\ accounts = db.accounts
         /\ groups = db.groups
         /\ groupSeq = 0
         /\ schema = db.schema
    /\ item = <<>>
    /\ kids = (ROOT :> <<>>)
    /\ steps = 0
    /\ last_played = <<>>
    /\ clock = 0
    /\ lastOp = Op("none", NULL, <<>>, TRUE, 0)
    /\ InitTicket
    /\ InitUi
    /\ InitMutexOff
    /\ InitInfo
    /\ opened = FALSE
    /\ opens = 0
    /\ rewrites = [u \in Usernames |-> 0]

\* the program is started and closed on such machines
SpecRestart == InitRestart /\ [][NextMigrate]_vars

\* accounts.db holding a row written before accounts had the column
\* roblosecurity, which ALTER TABLE (line 1446) left NULL
OldStore ==
    [UsedStore EXCEPT !.accounts["bob"].roblosecurity = None]

\* the window opened on a store with accounts, on a machine with DPAPI and
\* a wrapped key in place
InitLaunch ==
    /\ FERNET = "None"
    /\ keyRuns = 0
    /\ keyLog = <<>>
    /\ keyFile = <<"dpapi", "k1">>
    /\ keyFileOld = NoFile
    /\ envDpapi = TRUE
    /\ envMkdir = TRUE
    /\ envWrite = TRUE
    /\ envRemove = TRUE
    /\ cin = None
    /\ cval = None
    /\ cops = <<>>
    /\ carg = None
    /\ cexc = FALSE
    /\ \E db \in {UsedStore, OldStore} : InitStoreFrom(db)

\* accounts are launched from the settings dialog, and removed
NextLaunch == DoLaunch \/ RemoveAccount

SpecLaunch == InitLaunch /\ [][NextLaunch]_vars

\* lines 2591-2596: the Multi-Instance box of the settings dialog is
\* clicked; the dialog is modal, so no Join or Launch is under way
ToggleMultiInstance ==
    /\ opened
    /\ tkPc = "idle"
    /\ multi_instance_enabled' = ~multi_instance_enabled
    /\ patcher_started' = (patcher_started \/ multi_instance_enabled')
    /\ UNCHANGED <<cipherVars, storeVars, ticketVars, fileVars, uiVars, cleared,
                   saved_multi_instance,
                   infoVars, jobs>>

\* lines 2644-2650: the settings dialog is closed
SettingsClosed ==
    /\ opened
    /\ tkPc = "idle"
    /\ saved_multi_instance' = SaveSetting(multi_instance_enabled)
    /\ patcher_started' = (patcher_started \/ multi_instance_enabled)
    /\ UNCHANGED <<cipherVars, storeVars, ticketVars, fileVars, uiVars,
                   multi_instance_enabled, cleared,
                   infoVars, jobs>>

\* lines 2503-2517: one pass of the loop "while True" in its thread
MutexPatcherStep ==
    /\ patcher_started
    /\ cleared < MaxCleared
    /\ cleared' = cleared + 1
    /\ UNCHANGED <<cipherVars, storeVars, ticketVars, fileVars, uiVars,
                   multi_instance_enabled, patcher_started, saved_multi_instance,
                   infoVars, jobs>>

\* the program running with the feature as the settings row gave it
\* (lines 2495-2497, 1167-1169)
InitMutex ==
    /\ FERNET = "None"
    /\ keyRuns = 0
    /\ keyLog = <<>>
    /\ keyFile = <<"dpapi", "k1">>
    /\ keyFileOld = NoFile
    /\ envDpapi = TRUE
    /\ envMkdir = TRUE
    /\ envWrite = TRUE
    /\ envRemove = TRUE
    /\ cin = None
    /\ cval = None
    /\ cops = <<>>
    /\ carg = None
    /\ cexc = FALSE
    /\ accounts = UsedStore.accounts
    /\ groups = UsedStore.groups
    /\ groupSeq = UsedStore.groupSeq
    /\ item = load_accounts(UsedStore.accounts, UsedStore.groups).item
    /\ kids = load_accounts(UsedStore.accounts, UsedStore.groups).kids
    /\ steps = 0
    /\ last_played = <<>>
    /\ clock = 0
    /\ lastOp = Op("none", NULL, <<>>, TRUE, 0)
    /\ InitTicket
    /\ InitFile
    /\ InitUi
    /\ InitInfo
    /\ saved_multi_instance \in {"none", "0", "1"}
    /\ multi_instance_enabled = LoadSetting(saved_multi_instance)
    /\ patcher_started = multi_instance_enabled
    /\ cleared = 0

\* the feature is switched while games are joined and the loop runs
NextMutex ==
    \/ ToggleMultiInstance
    \/ SettingsClosed
    \/ MutexPatcherStep
    \/ TicketPost1
    \/ TicketPost1Returns
    \/ TicketPost2Returns

SpecMutex == InitMutex /\ [][NextMutex]_vars

-----------------------------------------------------------------------------
(* _fetch_game_info request by request *)

\* what a metadata request is answered with: ok tells that the request
\* returned, with status 200 and a game in it (for the page: with status
\* 200); name and universeId are None when the answer has none
Answers ==
    {r \in [ok : BOOLEAN, name : {None, <<"N1">>, <<"N2">>}, universeId : {None, <<"7">>}] :
        ~r.ok => (r.name = None /\ r.universeId = None)}

\* the imageUrl the thumbnails request gives, None when it gives none
IconAnswers == {None, <<"i">>}

\* lines 2156-2231: b answers multiget-place-details, s answers
\* v1/games, h is what the page of the game holds, ic answers the
\* thumbnails request
fetch_game_info_steps(b, s, h, ic) ==
    LET \* lines 2161-2173
        name1 == IF b.ok /\ b.name # None THEN b.name ELSE <<"Unknown">>
        uni1  == IF b.ok THEN b.universeId ELSE None
        \* lines 2176-2191: "if universe_id is None"
        name2 == IF uni1 = None /\ s.ok /\ s.name # None THEN s.name ELSE name1
        uni2  == IF uni1 = None /\ s.ok THEN s.universeId ELSE uni1
        \* lines 2194-2207: "if name == "Unknown""
        name3 == IF name2 = <<"Unknown">> /\ h.ok /\ h.name # None THEN h.name ELSE name2
        uni3  == IF name2 = <<"Unknown">> /\ h.ok /\ uni2 = None THEN h.universeId
                 ELSE uni2
        \* lines 2210-2229
        icon  == IF uni3 # None /\ ic # None THEN ic ELSE <<>>
    IN  [name |-> name3, icon_url |-> icon]

\* _fetch_game_info is called for a text with digits in it
FetchGameInfo ==
    /\ lookups # <<>>
    /\ game_info = <<>>
    /\ game_info' = <<fetch_game_info_steps(lookups[1].b, lookups[1].s, lookups[1].h,
                                            lookups[1].ic)>>
    /\ UNCHANGED <<cipherVars, storeVars, ticketVars, fileVars, uiVars, mutexVars,
                   lookups, jobs>>

\* the window opened on the store db, on a machine with DPAPI and a wrapped
\* key in place, before anything else is set
InitBase(db) ==
    /\ FERNET = "None"
    /\ keyRuns = 0
    /\ keyLog = <<>>
    /\ keyFile = <<"dpapi", "k1">>
    /\ keyFileOld = NoFile
    /\ envDpapi = TRUE
    /\ envMkdir = TRUE
    /\ envWrite = TRUE
    /\ envRemove = TRUE
    /\ cin = None
    /\ cval = None
    /\ cops = <<>>
    /\ carg = None
    /\ cexc = FALSE
    /\ accounts = db.accounts
    /\ groups = db.groups
    /\ groupSeq = db.groupSeq
    /\ item = load_accounts(db.accounts, db.groups).item
    /\ kids = load_accounts(db.accounts, db.groups).kids
    /\ steps = 0
    /\ clock = 0
    /\ lastOp = Op("none", NULL, <<>>, TRUE, 0)
    /\ InitTicket
    /\ InitFile
    /\ InitUi

\* the services are about to answer one call of _fetch_game_info
InitLookup ==
    /\ InitBase(UsedStore)
    /\ last_played = <<>>
    /\ InitMutexOff
    /\ lookups \in {<<r>> : r \in [b : Answers, s : Answers, h : Answers, ic : IconAnswers]}
    /\ game_info = <<>>
    /\ jobs = <<>>

NextLookup == FetchGameInfo

SpecLookup == InitLookup /\ [][NextLookup]_vars

\* last_played rows an earlier run stored with names taken from page titles
StaleRows ==
    (<<"alice", <<"1">>>> :> [name |-> <<"NEW!", "1">>, icon_url |-> <<>>, played_at |-> 0])
    @@ (<<"alice", <<"2">>>> :> [name |-> <<"UPDATE", "2">>, icon_url |-> <<"icon", "2">>,
                                 played_at |-> 0])
    @@ (<<"bob", <<"1">>>> :> [name |-> <<"name", "1">>, icon_url |-> <<"icon", "1">>,
                               played_at |-> 0])

\* the window opened on a store with such rows
InitRefresh ==
    /\ FERNET = "None"
    /\ keyRuns = 0
    /\ keyLog = <<>>
    /\ keyFile = <<"dpapi", "k1">>
    /\ keyFileOld = NoFile
    /\ envDpapi = TRUE
    /\ envMkdir = TRUE
    /\ envWrite = TRUE
    /\ envRemove = TRUE
    /\ cin = None
    /\ cval = None
    /\ cops = <<>>
    /\ carg = None
    /\ cexc = FALSE
    /\ accounts = UsedStore.accounts
    /\ groups = UsedStore.groups
    /\ groupSeq = UsedStore.groupSeq
    /\ item = load_accounts(UsedStore.accounts, UsedStore.groups).item
    /\ kids = load_accounts(UsedStore.accounts, UsedStore.groups).kids
    /\ steps = 0
    /\ last_played = StaleRows
    /\ clock = 1
    /\ InitRest
    /\ lastOp = Op("none", NULL, <<>>, TRUE, 0)

\* names are fixed in the background while entries are deleted, after a
\* game was joined or not
NextRefresh ==
    \/ SelectAccount
    \/ BgFixNames
    \/ ApplyLastPlayedUpdates
    \/ DeleteLastPlayed
    \/ steps < MaxRejoin /\ JoinServer

SpecRefresh == InitRefresh /\ [][NextRefresh]_vars

\* accounts.db with an alias and a group for alice, and cookies of an
\* earlier login
ReAddStore ==
    [UsedStore EXCEPT
        !.accounts = [u \in Usernames |->
                         [UsedStore.accounts[u] EXCEPT
                             !.alias = IF u = "alice" THEN <<"A">> ELSE <<>>,
                             !.roblosecurity = FernetEncrypt("k1", "n1", <<"o">>)]]]

\* the window opened on that store
InitReAdd ==
    /\ FERNET = "None"
    /\ keyRuns = 0
    /\ keyLog = <<>>
    /\ keyFile = <<"dpapi", "k1">>
    /\ keyFileOld = NoFile
    /\ envDpapi = TRUE
    /\ envMkdir = TRUE
    /\ envWrite = TRUE
    /\ envRemove = TRUE
    /\ cin = None
    /\ cval = None
    /\ cops = <<>>
    /\ carg = None
    /\ cexc = FALSE
    /\ InitStoreFrom(ReAddStore)

\* accounts are logged in again after games were joined
NextReAdd == steps < MaxReAdd /\ (AddAccount \/ JoinServer)

SpecReAdd == InitReAdd /\ [][NextReAdd]_vars

\* games are joined one account at a time and several at a time
NextDispatch == steps < MaxDispatch /\ (JoinServer \/ DoLaunch)

SpecDispatch == InitLaunch /\ [][NextDispatch]_vars

\* the exchange on its own
NextTicket == TicketPost1 \/ TicketPost1Returns \/ TicketPost2Returns

SpecTicket == Init /\ [][NextTicket]_vars

-----------------------------------------------------------------------------
(* Claims about the cipher *)

LastOp == IF cops = <<>> THEN "none" ELSE cops[Len(cops)]

\* the text carries the encrypted-format marker
HasMarker(v) == v # None /\ Len(v) > 0 /\ v[1] = Marker

\* authenticated decryption of v succeeds under key k
Decryptable(k, v) == Utf8OK(v) /\ FernetValid(k, v)

\* C8: decrypt(encrypt(s)) = s for every plaintext s, the empty one and the
\* ones that begin with the marker included, when both calls are made in
\* the same process.
C8_RoundTrip == cops = <<"enc", "dec">> => cval = cin

C8_Witness ==
    /\ cops = <<"enc", "dec">>
    /\ HasMarker(cin)
    /\ HasMarker(carg) /\ carg # cin
    /\ cval = cin

\* C9: decrypt returns a text without the marker unchanged, the empty text
\* included, and decrypting the result again changes nothing.
C9_Passthrough ==
    (cops \in {<<"dec">>, <<"dec", "dec">>} /\ cin # None /\ ~HasMarker(cin))
        => cval = cin

C9_Witness ==
    /\ cops = <<"dec", "dec">>
    /\ cin = <<>>
    /\ cval = <<>>

\* C10: decrypting a text that carries the marker and fails authenticated
\* decryption signals a failure: the call raises, or at least it does not
\* hand the text back as it does for a text that is not encrypted.
C10_FailureSignalled ==
    (LastOp = "dec" /\ HasMarker(carg) /\ ~Decryptable(FERNET, carg))
        => (cexc \/ cval # carg)


-----------------------------------------------------------------------------
(* Claims about the store and the tree *)

\* the step just taken was the handler op
Ran(op) == steps' # steps /\ lastOp'.op = op

AccountItems == {a \in DOMAIN item : item[a].kind = "account"}

RECURSIVE EnclosingGroup(_)
\* the id of the nearest group node above item a, NULL when there is none
EnclosingGroup(a) ==
    IF ParentOf(kids, a) = ROOT THEN NULL
    ELSE IF item[ParentOf(kids, a)].kind = "group" THEN item[ParentOf(kids, a)].data
    ELSE EnclosingGroup(ParentOf(kids, a))

\* C1: every account's group reference is NULL or the id of a group row
\* that exists, in every state the handlers can reach.
C1_GroupRefsExist ==
    \A u \in DOMAIN accounts :
        accounts[u].group_id = NULL \/ accounts[u].group_id \in DOMAIN groups

\* C2: deleting a stored group g leaves no account row referencing g, makes
\* every account that referenced g ungrouped and removes the row of g; when
\* the transaction fails nothing of it is kept.
C2_DeleteGroupAtomic ==
    [][(Ran("delete_group") /\ lastOp'.g \in DOMAIN groups) =>
          IF lastOp'.ok
          THEN /\ lastOp'.g \notin DOMAIN groups'
               /\ DOMAIN accounts' = DOMAIN accounts
               /\ \A u \in DOMAIN accounts :
                    /\ accounts'[u].group_id # lastOp'.g
                    /\ accounts[u].group_id = lastOp'.g
                         => accounts'[u].group_id = NULL
          ELSE accounts' = accounts /\ groups' = groups]_vars

C2_Witness ==
    /\ lastOp.op = "delete_group"
    /\ lastOp.ok
    /\ lastOp.n > 0
    /\ lastOp.g \notin DOMAIN groups
    /\ \A u \in DOMAIN accounts : accounts[u].group_id = NULL

\* C3: after a drop and the reconcile that follows it, every account shown
\* in the tree is stored with the id of the group node that contains it,
\* and as ungrouped when no group node is its parent.
C3_StoredGroupIsShownGroup ==
    (lastOp.op = "drop" /\ lastOp.ok) =>
        \A a \in AccountItems :
            (/\ item[a].data \in DOMAIN accounts
             /\ \A b \in AccountItems : item[b].data = item[a].data => b = a) =>
                \/ accounts[item[a].data].group_id = EnclosingGroup(a)
                \/ /\ ParentOf(kids, a) # ROOT
                   /\ item[ParentOf(kids, a)].kind = "account"
                   /\ accounts[item[a].data].group_id = NULL

\* C4: the updates of one reconcile batch are committed all together or not
\* at all, also when one of them fails part-way.
C4_ReconcileAtomic ==
    [][Ran("drop") =>
          LET batch == SyncUpdates(item', kids', kids'[ROOT])
              hits(u) == {i \in 1..Len(batch) : batch[i].u = u}
          IN  IF lastOp'.ok
              THEN /\ DOMAIN accounts' = DOMAIN accounts
                   /\ \A u \in DOMAIN accounts :
                        accounts'[u] =
                            IF hits(u) = {} THEN accounts[u]
                            ELSE [accounts[u] EXCEPT
                                    !.group_id = batch[Max(hits(u))].g]
              ELSE accounts' = accounts]_vars

C4_Witness ==
    /\ lastOp.op = "drop"
    /\ ~lastOp.ok
    /\ lastOp.n = 1
    /\ Len(SyncUpdates(item, kids, kids[ROOT])) >= 2

\* C5: after every completed mutation the tree agrees with the store: each
\* stored account is shown exactly once, under the node of its stored group
\* or under Ungrouped, and each group node shows the stored name.
C5_ViewAgreesWithStore ==
    /\ \A u \in DOMAIN accounts :
         /\ Cardinality({a \in AccountItems : item[a].data = u}) = 1
         /\ \A a \in AccountItems :
              item[a].data = u =>
                /\ ParentOf(kids, a) # ROOT
                /\ item[ParentOf(kids, a)].kind = "group"
                /\ item[ParentOf(kids, a)].data = accounts[u].group_id
    /\ \A g \in DOMAIN item :
         (item[g].kind = "group" /\ item[g].data # NULL) =>
            /\ item[g].data \in DOMAIN groups
            /\ item[g].base = groups[item[g].data]

NamesDistinct ==
    \A g \in DOMAIN groups, h \in DOMAIN groups : groups[g] = groups[h] => g = h

\* C6: creating a group under a name a stored group has is rejected with
\* the duplicate-name outcome and changes no group row and no account row,
\* so the names of the stored groups stay pairwise distinct.
C6_DuplicateCreateRejected ==
    [][/\ NamesDistinct /\ NamesDistinct'
       /\ (Ran("create_group") /\ \E g \in DOMAIN groups : groups[g] = lastOp'.name)
            => (~lastOp'.ok /\ groups' = groups /\ accounts' = accounts)]_vars

C6_Witness ==
    /\ lastOp.op = "create_group"
    /\ ~lastOp.ok
    /\ \E g \in DOMAIN groups : groups[g] = lastOp.name
    /\ \E u \in DOMAIN accounts : accounts[u].group_id \in DOMAIN groups

\* the place a stored row designates: the digits of its place_id text
PlaceOf(k) == FirstDigits(k[2])

\* C7: there is at most one last-played row for an account and a place,
\* whatever text was entered to designate the place.
C7_OneRowPerAccountAndPlace ==
    \A k \in DOMAIN last_played, m \in DOMAIN last_played :
        (/\ k[1] = m[1]
         /\ PlaceOf(k) # None
         /\ PlaceOf(k) = PlaceOf(m)) => k = m

-----------------------------------------------------------------------------
(* Claims about the auth-ticket exchange *)

\* C11: when the first response carries no anti-forgery token the exchange
\* fails with the missing-CSRF-token error and no second request is sent.
C11_NoTokenNoSecondRequest ==
    (Len(tkResp) >= 1 /\ ~Truthy(tkResp[1])) =>
        /\ tkPc = "idle"
        /\ tkErr = "Failed to obtain CSRF token"
        /\ Len(tkReqs) = 1
        /\ tkOut = None

C11_Witness ==
    /\ tkResp = << <<>> >>
    /\ tkErr = "Failed to obtain CSRF token"
    /\ Len(tkReqs) = 1

\* C12: a ticket is returned only after exactly two requests, the second
\* carrying the token of the first response, and it is the ticket of the
\* second response; a second response without a ticket gives the
\* missing-ticket error and no ticket.
C12_TicketAfterTwoRequests ==
    /\ tkOut # None =>
         /\ Len(tkReqs) = 2 /\ Len(tkResp) = 2
         /\ tkReqs[1].csrf = None
         /\ Truthy(tkResp[1]) /\ tkReqs[2].csrf = tkResp[1]
         /\ tkReqs[2].cookie = tkReqs[1].cookie
         /\ Truthy(tkOut) /\ tkOut = tkResp[2]
         /\ tkErr = "none"
    /\ (Len(tkResp) = 2 /\ ~Truthy(tkResp[2])) =>
         /\ tkErr = "Authentication ticket header missing"
         /\ tkOut = None

C12_Witness ==
    /\ tkOut = <<"T2">>
    /\ tkResp = << <<"t1">>, <<"T2">> >>
    /\ tkReqs[2].csrf = <<"t1">>
    /\ tkCalls = 2

-----------------------------------------------------------------------------
(* Claims about the key *)

\* the step is the first _get_fernet() call of a process that goes through
\* the key files
FirstAccess == FERNET = "None" /\ keyRuns' = keyRuns + 1

\* the key a new process would load from the key file
KeyAtRest == LoadKey(keyFile).key

\* C13: when a key exists only at the old location at the first access, then
\* afterwards the new location holds it (wrapped when DPAPI is usable, raw
\* otherwise), the old file is gone and the process uses that key.
C13_LegacyKeyMoved ==
    [][(FirstAccess /\ keyFile = NoFile /\ ValidKey(keyFileOld)) =>
          /\ keyFile' = IF envDpapi THEN <<"dpapi">> \o keyFileOld ELSE keyFileOld
          /\ keyFileOld' = NoFile
          /\ FERNET' = keyFileOld[1]]_vars

\* C13 with the machine it needs: when, in addition, the new location can
\* be created and written and the old file can be removed.
C13_LegacyKeyMovedWhenWritable ==
    [][(/\ FirstAccess /\ keyFile = NoFile /\ ValidKey(keyFileOld)
        /\ envMkdir /\ envWrite /\ envRemove) =>
          /\ keyFile' = IF envDpapi THEN <<"dpapi">> \o keyFileOld ELSE keyFileOld
          /\ keyFileOld' = NoFile
          /\ FERNET' = keyFileOld[1]]_vars

C13_Witness ==
    /\ cin = FernetEncrypt("k2", "n1", <<"x">>)
    /\ cops = <<"dec">>
    /\ cval = <<"x">>
    /\ FERNET = "k2"
    /\ keyFile = <<"dpapi", "k2">>
    /\ keyFileOld = NoFile

\* C14: a process goes through the key files at most once; after the first
\* access every _enc / _dec call uses the same key and leaves the key files
\* as they are.
C14_KeyResolvedOnce ==
    [][/\ keyRuns' <= 1
       /\ (FERNET # "None" /\ cops' # cops /\ LastOp' \in {"enc", "dec"}) =>
            /\ FERNET' = FERNET
            /\ keyFile' = keyFile
            /\ keyFileOld' = keyFileOld
            /\ keyRuns' = keyRuns]_vars

C14_Witness ==
    /\ cops = <<"enc", "dec", "enc">>
    /\ keyRuns = 1
    /\ FERNET \in Keys
    /\ KeyAtRest # <<FERNET>>

\* C15: when the key cannot be kept anywhere, the process goes on with a key
\* held only in memory, and this state is reported.
C15_EphemeralKeyReported ==
    (FERNET # "None" /\ KeyAtRest # <<FERNET>>) =>
        (FERNET \in Keys /\ keyLog # <<>>)

-----------------------------------------------------------------------------
(* Starting the program on a file an earlier version left                  *)

\* a start of the program, from its first statement to where it stopped
Started == opens' = opens + 1

\* every cookie that is not empty carries the marker of an encrypted token
AllEncrypted(acc) ==
    \A u \in DOMAIN acc : Truthy(acc[u].roblosecurity) => is_enc(acc[u].roblosecurity)

\* C16: the encryption of the stored cookies can be re-run: when a start of
\* the program runs it to its end every non-empty cookie is an encrypted
\* token, a row whose cookie was one already (or was empty) is left as it
\* was, so a second run rewrites no row, no cookie is encrypted twice, and
\* a run that is cut short leaves every row as it was or as the finished
\* run leaves it.
C16_EncryptionRerunnable ==
    [][Started =>
          /\ lastOp'.ok => AllEncrypted(accounts')
          /\ DOMAIN accounts' = DOMAIN accounts
          /\ \A u \in DOMAIN accounts :
                LET old == accounts[u].roblosecurity
                    new == accounts'[u].roblosecurity
                IN  /\ (is_enc(old) \/ ~Truthy(old)) => accounts'[u] = accounts[u]
                    /\ new # old => ~is_enc(old) /\ is_enc(new)
                                     /\ \E k \in Keys : dec(k, new) = old
                    /\ rewrites'[u] <= 1
          /\ AllEncrypted(accounts) => accounts' = accounts /\ lastOp'.n = 0]_vars

\* the program was started twice on a file with a plain cookie: the first
\* start encrypted it, the second ran to its end and rewrote nothing
C16_Witness ==
    /\ opens = 2
    /\ lastOp.op = "open" /\ lastOp.ok /\ lastOp.n = 0
    /\ \E u \in DOMAIN accounts : rewrites[u] = 1 /\ is_enc(accounts[u].roblosecurity)
\* the names a groups table holds
GroupNames(grp) == {grp[g] : g \in DOMAIN grp}

\* C17: started on a file whose schema is the current one, the program
\* changes neither the schema nor the groups, and no account row whose
\* cookie is encrypted already; started on a file with the table
\* groups(name), it leaves a table groups(id, name) whose names are the
\* distinct names of the old table, one row each.
C17_SchemaUpgradeRerunnable ==
    [][Started =>
          /\ schema = Upgraded =>
                /\ schema' = schema /\ groups' = groups /\ groupSeq' = groupSeq
                /\ AllEncrypted(accounts) => accounts' = accounts
          /\ lastOp'.ok => schema' = Upgraded
          /\ schema.groups = "unkeyed" /\ schema'.groups = "keyed" =>
                /\ GroupNames(groups') = GroupNames(groups)
                /\ Cardinality(DOMAIN groups') = Cardinality(GroupNames(groups))
                /\ groupSeq' = Cardinality(DOMAIN groups')]_vars

\* a table groups(name) of two rows with the same name was replaced by a
\* table groups(id, name) of one row
C17_Witness ==
    /\ lastOp.op = "open" /\ lastOp.g = "2"
    /\ schema.groups = "keyed"
    /\ Cardinality(DOMAIN groups) = 1

-----------------------------------------------------------------------------
(* Claims about launching several accounts *)

\* the launch for the account did not start the game
LaunchFailed(d) == d.err # "none" \/ ~d.started

\* the warnings shown about the account u
WarningsAbout(u) == {i \in DOMAIN shown : shown[i].who = u}

\* C18: after Launch Selected has run over a selection, a launch was
\* attempted for every selected account, in the order of the list, and a
\* warning about an account is shown, once, exactly when the launch for
\* that account failed.
C18_BatchFailuresIsolated ==
    lastOp.op = "do_launch" /\ lastOp.ok =>
        /\ [i \in DOMAIN launches |-> launches[i].u] = selected
        /\ \A i \in DOMAIN launches :
              Cardinality(WarningsAbout(launches[i].u)) =
                  IF LaunchFailed(launches[i]) THEN 1 ELSE 0
-----------------------------------------------------------------------------
(* Claims about the game's name and icon *)

\* the row a Join wrote for the text it was given
WrittenRows ==
    {k \in DOMAIN last_played' :
        k = <<lastOp'.u, lastOp'.name>> /\ last_played'[k].played_at = clock'}

\* C19: when a Join has handed the launch to the desktop and no lookup gave
\* the game (every lookup failed, or the text holds no integer), the
\* last-played row is written all the same, with the name "Unknown" and an
\* empty icon, and no failure is shown for the launch.
C19_EnrichmentNeverFails ==
    [][Ran("join_server") /\ lastOp'.ok /\ lastOp'.n = 0 =>
          /\ shown' = <<>>
          /\ WrittenRows # {}
          /\ \A k \in WrittenRows :
                /\ last_played'[k].name = <<"Unknown">>
                /\ last_played'[k].icon_url = <<>>]_vars

\* two plays are on record with the name "Unknown": one joined with a
\* text that holds no integer, one with an integer no lookup answered for
C19_Witness ==
    /\ lastOp.op = "join_server" /\ lastOp.ok /\ lastOp.n = 0 /\ shown = <<>>
    /\ \E k \in DOMAIN last_played :
          FirstDigits(k[2]) = None /\ last_played[k].name = <<"Unknown">>
    /\ \E k \in DOMAIN last_played :
          FirstDigits(k[2]) # None /\ last_played[k].name = <<"Unknown">>
-----------------------------------------------------------------------------
(* Claims about adding an account *)

C21_TimeoutReported ==
    lastOp.op = "add_account" /\ lastOp.end = "timeout" =>
        shown[1].title = "Login timeout"
-----------------------------------------------------------------------------
(* Claims about renaming a group *)

\* the name of the group load_accounts() lists the account u under
ListedUnder(acc, grp, u) ==
    LET v == load_accounts(acc, grp)
        a == CHOOSE x \in DOMAIN v.item :
                 v.item[x].kind = "account" /\ v.item[x].data = u
    IN  v.item[ParentOf(v.kids, a)].base

\* C22: when a stored group is renamed to a name no group holds, no account
\* row changes, the group's row holds the new name, and load_accounts()
\* lists every account stored in that group under the new name and every
\* other account where it listed it before.
C22_RenameKeepsMembers ==
    [][/\ Ran("rename_group") /\ lastOp'.ok
       /\ lastOp'.g \in DOMAIN groups
       /\ \A h \in DOMAIN groups : groups[h] # lastOp'.name
       =>
       /\ accounts' = accounts
       /\ lastOp'.g \in DOMAIN groups' /\ groups'[lastOp'.g] = lastOp'.name
       /\ \A u \in DOMAIN accounts :
             ListedUnder(accounts', groups', u) =
                 IF accounts[u].group_id = lastOp'.g THEN lastOp'.name
                 ELSE ListedUnder(accounts, groups, u)]_vars

\* bob, stored ungrouped, was moved into group 1 and the group was then
\* renamed from "A" to "B": bob is listed under "B"
C22_Witness ==
    /\ lastOp.op = "rename_group" /\ lastOp.ok /\ lastOp.name = <<"B">>
    /\ "bob" \in DOMAIN accounts /\ accounts["bob"].group_id = lastOp.g
    /\ lastOp.g \in DOMAIN groups
    /\ ListedUnder(accounts, groups, "bob") = <<"B">>
-----------------------------------------------------------------------------
(* Claims about what a launch leaves on record *)

\* the last-played row of the account u and the place text t was written
\* at the present time
RecordedNow(u, t) ==
    <<u, t>> \in DOMAIN last_played /\ last_played[<<u, t>>].played_at = clock

\* C23: after a Join that handed its URI to the desktop, and after a Launch
\* Selected for every account whose launch started, the last-played row
\* of that account and place is on record, written by that launch.
C23_LaunchRecorded ==
    /\ lastOp.op = "join_server" /\ lastOp.ok => RecordedNow(lastOp.u, lastOp.name)
    /\ lastOp.op = "do_launch" /\ lastOp.ok =>
          \A i \in DOMAIN launches :
              launches[i].started => RecordedNow(launches[i].u, lastOp.name)
-----------------------------------------------------------------------------
(* Claims about the multi-instance feature *)

\* C24: the loop that clears the mutex makes a pass only while the
\* multi-instance feature is enabled, and its thread runs whenever the
\* feature is enabled.
C24_PatcherOnlyWhileEnabled ==
    [][/\ cleared' # cleared => multi_instance_enabled
       /\ multi_instance_enabled' => patcher_started']_vars
-----------------------------------------------------------------------------
(* Claims about a rename that collides *)

\* C25: a rename of a group to the name another stored group holds is
\* rejected: no group row changes, and the tree goes on showing the group
\* under the name its row holds.
C25_DuplicateRenameRejected ==
    [][(Ran("rename_group") /\ \E h \in DOMAIN groups \ {lastOp'.g} :
                                  groups[h] = lastOp'.name)
         => /\ ~lastOp'.ok
            /\ groups' = groups
            /\ \A gi \in DOMAIN item' :
                  (item'[gi].kind = "group" /\ item'[gi].data = lastOp'.g
                      /\ lastOp'.g \in DOMAIN groups')
                  => item'[gi].base = groups'[lastOp'.g]]_vars
-----------------------------------------------------------------------------
(* Claims about the order of the lookups *)

\* the answer gives a name of the game
GivesName(r) == r.ok /\ r.name # None

\* C26: the name _fetch_game_info returns is the one the first lookup
\* that gave a name gave: the batch endpoint's when it gave one, else the
\* singular endpoint's when it gave one, else the page's.
C26_FirstSuccessDecides ==
    game_info # <<>> =>
        /\ GivesName(lookups[1].b) => game_info[1].name = lookups[1].b.name
        /\ (~lookups[1].b.ok /\ GivesName(lookups[1].s))
              => game_info[1].name = lookups[1].s.name
-----------------------------------------------------------------------------
(* Claims about what is dispatched *)

\* both responses of the exchange were read and carried their header
HandshakeOK(resp) == Len(resp) = 2 /\ Truthy(resp[1]) /\ Truthy(resp[2])

\* C27: a Join, and a Launch Selected for each of its accounts, hands the
\* URI to webbrowser.open only when the two requests of that attempt's
\* ticket exchange both gave their header; when the exchange failed,
\* nothing is handed over and no last-played row is written.
C27_DispatchAfterHandshake ==
    [][/\ Ran("join_server") =>
             /\ lastOp'.ok => HandshakeOK(lastOp'.resp)
             /\ ~HandshakeOK(lastOp'.resp) => ~lastOp'.ok /\ last_played' = last_played
       /\ Ran("do_launch") =>
             \A i \in DOMAIN launches' :
                 /\ launches'[i].opened => HandshakeOK(launches'[i].resp)
                 /\ ~HandshakeOK(launches'[i].resp) =>
                       ~launches'[i].opened /\ last_played' = last_played]_vars

\* after a Join that was dispatched and recorded, a Launch Selected
\* dispatched one account and, its first response carrying no token, not
\* the other
C27_Witness ==
    /\ lastOp.op = "do_launch"
    /\ last_played # <<>>
    /\ \E i \in DOMAIN launches : launches[i].opened /\ HandshakeOK(launches[i].resp)
    /\ \E i \in DOMAIN launches : ~launches[i].opened /\ Len(launches[i].resp) = 1
-----------------------------------------------------------------------------
(* Claims about adding a stored username again *)

\* C28: when add_account stores a username that is already in accounts,
\* the table keeps one row per username, the row of that username holds
\* the cookie just captured, an empty alias and no group, and the other
\* account rows, the groups and the last-played rows are as before.
C28_ReAddReplacesRow ==
    [][(Ran("add_account") /\ lastOp'.ok /\ lastOp'.u \in DOMAIN accounts) =>
          /\ DOMAIN accounts' = DOMAIN accounts
          /\ dec(FERNET', accounts'[lastOp'.u].roblosecurity) = lastOp'.c
          /\ accounts'[lastOp'.u].alias = <<>>
          /\ accounts'[lastOp'.u].group_id = NULL
          /\ \A x \in DOMAIN accounts \ {lastOp'.u} : accounts'[x] = accounts[x]
          /\ groups' = groups
          /\ groupSeq' = groupSeq
          /\ last_played' = last_played]_vars

\* alice, stored with alias A in group 1 and with a game played, was
\* added again
C28_Witness ==
    /\ lastOp.op = "add_account"
    /\ lastOp.ok
    /\ lastOp.u = "alice"
    /\ accounts["alice"].roblosecurity # ReAddStore.accounts["alice"].roblosecurity
    /\ accounts["alice"].group_id = NULL
    /\ accounts["bob"] = ReAddStore.accounts["bob"]
    /\ groups = ReAddStore.groups
    /\ \E k \in DOMAIN last_played : k[1] = "alice"
-----------------------------------------------------------------------------
(* Claims about fixing names in the background *)

\* job i passes from one stage to the next in this step
Passes(i, from, to) ==
    /\ i \in DOMAIN jobs
    /\ jobs[i].stage = from
    /\ jobs'[i].stage = to

\* C29: when the call a thread of _refresh_last_played posted is applied,
\* whatever was deleted, recorded or selected since its snapshot, the
\* last_played table keeps its rows, none added and none removed, every row
\* keeps its played_at, a row of another account is as before, and a row
\* changes in name and icon_url only; the thread itself changes no table.
C29_ApplyOnlyRenames ==
    [][\A i \in DOMAIN jobs :
          /\ Passes(i, "posted", "applied") =>
                /\ DOMAIN last_played' = DOMAIN last_played
                /\ \A k \in DOMAIN last_played :
                      /\ last_played'[k].played_at = last_played[k].played_at
                      /\ k[1] # jobs[i].u => last_played'[k] = last_played[k]
                /\ accounts' = accounts
                /\ groups' = groups
          /\ Passes(i, "fetching", "posted") =>
                /\ last_played' = last_played
                /\ accounts' = accounts
                /\ groups' = groups]_vars

\* a call was applied whose updates name a place of alice deleted since
\* the snapshot and a place of hers recorded again since: the first has no
\* row, the second the name of the update and the time of the Join
C29_Witness ==
    \E i \in DOMAIN jobs :
        /\ jobs[i].stage = "applied"
        /\ jobs[i].u = "alice"
        /\ \E p \in DOMAIN jobs[i].updates : <<"alice", p>> \notin DOMAIN last_played
        /\ \E p \in DOMAIN jobs[i].updates :
              /\ <<"alice", p>> \in DOMAIN last_played
              /\ last_played[<<"alice", p>>].name = jobs[i].updates[p].name
              /\ last_played[<<"alice", p>>].played_at > 1
        /\ last_played[<<"bob", <<"1">>>>] = StaleRows[<<"bob", <<"1">>>>]
-----------------------------------------------------------------------------
(* Claims about cookies across restarts *)

\* C30: a cookie migrate_table() found as plain text and rewrote is given
\* back by _dec as that text, in the run that rewrote it and in any later
\* run, whatever key _get_fernet() comes to use.
C30_MigrationKeepsCredential ==
    \A u \in DOMAIN accounts :
        rewrites[u] > 0 =>
            \A g1 \in Keys, g2 \in Keys :
                dec(get_fernet(FERNET, keyFile, keyFileOld, g1, g2).F,
                    accounts[u].roblosecurity) = LegacyCookie
=============================================================================
